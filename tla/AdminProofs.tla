---------------------------- MODULE AdminProofs ----------------------------
(***************************************************************************)
(* Proofs about those who administer a board.  First about Install, for    *)
(* any number of requests, shells, addresses and secrets: the types, the   *)
(* bound on the super admins that overlapping requests make, and that a    *)
(* park file that can be read is of use.  Then about Sessions, for any     *)
(* number of people, ids and requests and any policies: the types, the cap *)
(* on a person's live sessions, and that what the portal shows is so.      *)
(***************************************************************************)
EXTENDS Install, Sessions, FiniteSetTheorems, WellFoundedInduction, TLAPS

-----------------------------------------------------------------------------
(* The types *)

JobRow == [at : Places, ip : Ips \cup {None}, email : Emails \cup {None}, doc : Doc]

\* A fresh secret is one, and what was made before stays what it is.
LEMMA MintRange ==
  ASSUME minted \in Nat, minted <= MaxSecrets, Mint
  PROVE  /\ minted' \in Nat /\ minted' <= MaxSecrets /\ minted' = minted + 1
         /\ gen_password \in Secrets /\ gen_password \in 1 .. minted' /\ gen_password # 0
         /\ 0 .. minted \subseteq 0 .. minted' /\ 1 .. minted \subseteq 1 .. minted'
  BY InstallAssumption DEF Mint, gen_password, Secrets

\* An idle job is a row.
LEMMA IdleRow == NoDoc \in Doc /\ Idle \in JobRow
  BY InstallAssumption DEF JobRow, Idle, NoDoc, Doc, Secrets, Places

\* The rows a job may be given are rows.
LEMMA JobRows ==
  ASSUME job \in [Workers -> JobRow], NEW w \in Workers
  PROVE  /\ \A place \in Places : [job[w] EXCEPT !.at = place] \in JobRow
         /\ \A place \in Places, doc \in Doc : [job[w] EXCEPT !.at = place, !.doc = doc] \in JobRow
         /\ \A j \in JobRow : [job EXCEPT ![w] = j] \in [Workers -> JobRow]
  BY InstallAssumption DEF JobRow, Idle, NoDoc, Doc, Secrets, Places

\* So a step that moves a job leaves rows behind.
LEMMA GoToKeeps ==
  ASSUME job \in [Workers -> JobRow], NEW w \in Workers, NEW place \in Places, GoTo(w, place)
  PROVE  job' \in [Workers -> JobRow]
<1> DEFINE row == [job[w] EXCEPT !.at = place]
<1>1. row \in JobRow
  BY JobRows
<1>2. job' = [job EXCEPT ![w] = row]
  BY Zenon DEF GoTo, Go
<1> HIDE DEF row
<1> QED BY <1>1, <1>2

LEMMA HoldKeeps ==
  ASSUME job \in [Workers -> JobRow], NEW w \in Workers, NEW place \in Places, NEW doc \in Doc,
         Hold(w, place, doc)
  PROVE  job' \in [Workers -> JobRow]
<1> DEFINE row == [job[w] EXCEPT !.at = place, !.doc = doc]
<1>1. row \in JobRow
  BY JobRows
<1>2. job' = [job EXCEPT ![w] = row]
  BY Zenon DEF Hold, Go
<1> HIDE DEF row
<1> QED BY <1>1, <1>2

\* What a step that moves a job leaves of it, and of the others.
LEMMA GoToMoves ==
  ASSUME job \in [Workers -> JobRow], NEW w \in Workers, NEW place, GoTo(w, place)
  PROVE  /\ job'[w].at = place /\ job'[w].doc = job[w].doc /\ job'[w].email = job[w].email
         /\ \A v \in Workers \ {w} : job'[v] = job[v]
<1>1. job[w] \in JobRow
  OBVIOUS
<1> QED BY <1>1 DEF GoTo, Go, JobRow

LEMMA HoldMoves ==
  ASSUME job \in [Workers -> JobRow], NEW w \in Workers, NEW place, NEW doc, Hold(w, place, doc)
  PROVE  /\ job'[w].at = place /\ job'[w].doc = doc
         /\ \A v \in Workers \ {w} : job'[v] = job[v]
<1> DEFINE row == [job[w] EXCEPT !.at = place, !.doc = doc]
<1>1. row.at = place /\ row.doc = doc
  BY DEF JobRow
<1>2. job' = [job EXCEPT ![w] = row]
  BY Zenon DEF Hold, Go
<1> HIDE DEF row
<1> QED BY <1>1, <1>2

\* TypeOK with the rows under a name.
Typed ==
  /\ sas \subseteq Emails /\ su \in BOOLEAN /\ firstIp \in Ips \cup {None}
  /\ forgejo \in [admin : 0 .. minted, service : 0 .. minted, tokens : SUBSET (1 .. minted)]
  /\ park \in Doc \cup {None, Torn}
  /\ minted \in Nat /\ minted <= MaxSecrets
  /\ job \in [Workers -> JobRow]

\* Who is about to make a super admin is a request, with an address for it.
Enrols == \A w \in Workers :
  job[w].at \in {"sa_lock", "sa_insert"} => w \in Requests /\ job[w].email \in Emails

LEMMA TypedIsTypeOK == TypeOK <=> Typed
  BY DEF TypeOK, Typed, JobRow

\* Every step keeps the types.
LEMMA TypedStep == Typed /\ Enrols /\ [Next]_vars => Typed'
<1> SUFFICES ASSUME Typed, Enrols, [Next]_vars PROVE Typed'
  OBVIOUS
<1>t. Typed /\ Enrols
  OBVIOUS
<1>places. {"idle", "sa_lock", "sa_insert", "sa_session", "sa_clear", "admin", "service", "token",
            "new_admin", "new_token", "verify", "truncate", "write"} = Places
  BY DEF Places
<1>w. \A w \in Workers : /\ job[w].ip \in Ips \cup {None} /\ job[w].email \in Emails \cup {None}
                        /\ job[w].doc \in Doc
  BY <1>t DEF Typed, JobRow
<1>1. ASSUME NEW ip \in Ips, bootstrap_status(ip) PROVE Typed'
  BY <1>t, <1>1 DEF bootstrap_status, Typed
<1>2. ASSUME NEW w \in Workers, NEW ip \in Ips, NEW email \in Emails, create_sa(w, ip, email)
      PROVE  Typed'
  <2>1. [at |-> "sa_lock", ip |-> ip, email |-> email, doc |-> NoDoc] \in JobRow
    BY InstallAssumption DEF JobRow, Places, NoDoc, Doc, Secrets
  <2> QED BY <1>t, <1>2, <2>1, JobRows DEF create_sa, Go, Typed
<1>3. CASE ProvisionSU
  BY <1>t, <1>3 DEF ProvisionSU, Typed
<1>4. CASE Restart
  BY <1>t, <1>4, IdleRow DEF Restart, Typed
<1>5. CASE RemovePark
  BY <1>t, <1>5 DEF RemovePark, Typed
<1>6. ASSUME NEW w \in Workers,
             \/ Lock(w) \/ Insert(w) \/ Session(w) \/ _clear_first_ip_lock(w)
      PROVE  Typed'
  <2>1. CASE Lock(w)
    <3>1. firstIp' \in Ips \cup {None}
      BY <1>w, <2>1 DEF Lock
    <3> QED BY <1>t, <2>1, <3>1, <1>places, GoToKeeps DEF Lock, Typed
  <2>2. CASE Insert(w)
    <3>1. job[w].email \in Emails
      BY <1>t, <2>2 DEF Insert, Enrols
    <3> QED BY <1>t, <2>2, <3>1, <1>places, GoToKeeps DEF Insert, Typed
  <2>3. CASE Session(w)
    BY <1>t, <2>3, <1>places, GoToKeeps DEF Session, Typed
  <2>4. CASE _clear_first_ip_lock(w)
    BY <1>t, <2>4, <1>places, JobRows, IdleRow DEF _clear_first_ip_lock, Go, Typed
  <2> QED BY <1>6, <2>1, <2>2, <2>3, <2>4
<1>7. ASSUME NEW w \in Workers,
             \/ bootstrap_forgejo(w) \/ reset_admin(w) \/ reset_service_token(w) \/ verify(w)
             \/ RoundTrip(w) \/ Truncate(w) \/ park_write(w) \/ Abandon(w)
      PROVE  Typed'
  <2>1. ASSUME NEW place \in Places, Read(w, place) PROVE Typed'
    BY <1>t, <2>1, HoldKeeps DEF Read, Typed
  <2>2. CASE bootstrap_forgejo(w) \/ RoundTrip(w) \/ Truncate(w)
    BY <1>t, <2>2, <1>places, GoToKeeps DEF bootstrap_forgejo, RoundTrip, Truncate, Typed
  <2>3. CASE park_write(w)
    BY <1>t, <1>w, <2>3, JobRows, IdleRow DEF park_write, Go, Typed
  <2>4. CASE Abandon(w)
    BY <1>t, <2>4, JobRows, IdleRow DEF Abandon, Go, Typed
  <2> QED BY <1>7, <2>1, <2>2, <2>3, <2>4, <1>places DEF reset_admin, reset_service_token, verify
<1>8. ASSUME NEW w \in Workers,
             \/ CreateAdmin(w) \/ CreateService(w) \/ CreateToken(w) \/ ChangePassword(w)
      PROVE  Typed'
  <2>1. Mint
    BY <1>8 DEF CreateAdmin, CreateService, CreateToken, ChangePassword
  <2>2. /\ minted' \in Nat /\ minted' <= MaxSecrets
        /\ gen_password \in Secrets /\ gen_password \in 0 .. minted' /\ gen_password \in 1 .. minted'
        /\ 0 .. minted \subseteq 0 .. minted' /\ 1 .. minted \subseteq 1 .. minted'
    BY <1>t, <2>1, MintRange DEF Typed
  <2>3. /\ [job[w].doc EXCEPT !.admin = gen_password] \in Doc
        /\ [job[w].doc EXCEPT !.service = gen_password] \in Doc
        /\ [job[w].doc EXCEPT !.token = gen_password] \in Doc
    BY <1>w, <2>2 DEF Doc
  <2>4. forgejo \in [admin : 0 .. minted', service : 0 .. minted', tokens : SUBSET (1 .. minted')]
    BY <1>t, <2>2 DEF Typed
  <2>5. /\ sas' = sas /\ su' = su /\ firstIp' = firstIp /\ park' = park
    BY <1>8 DEF CreateAdmin, CreateService, CreateToken, ChangePassword
  <2>6. job' \in [Workers -> JobRow]
    BY <1>t, <1>8, <2>3, <1>places, HoldKeeps
       DEF CreateAdmin, CreateService, CreateToken, ChangePassword, Typed
  <2>7. forgejo' \in [admin : 0 .. minted', service : 0 .. minted', tokens : SUBSET (1 .. minted')]
    BY <1>8, <2>2, <2>4 DEF CreateAdmin, CreateService, CreateToken, ChangePassword, Issue
  <2> QED BY <1>t, <2>2, <2>5, <2>6, <2>7 DEF Typed
<1>9. CASE UNCHANGED vars
  BY <1>t, <1>9 DEF vars, Typed
<1> QED
  BY <1>1, <1>2, <1>3, <1>4, <1>5, <1>6, <1>7, <1>8, <1>9 DEF Next

\* What any step does to one job: nothing, an end, a start, or one move.
LEMMA OneMove ==
  ASSUME Typed, [Next]_vars, NEW v \in Workers
  PROVE  \/ job'[v] = job[v]
         \/ job'[v] = Idle
         \/ \E ip \in Ips, email \in Emails : create_sa(v, ip, email)
         \/ Lock(v)
         \/ job'[v].at \notin {"sa_lock", "sa_insert"}
<1>t. job \in [Workers -> JobRow]
  BY DEF Typed
<1>1. ASSUME NEW w \in Workers, NEW place \in Places \ {"sa_lock", "sa_insert"}, GoTo(w, place)
      PROVE  job'[v] = job[v] \/ job'[v].at \notin {"sa_lock", "sa_insert"}
  BY <1>t, <1>1, GoToMoves
<1>2. ASSUME NEW w \in Workers, NEW place \in Places \ {"sa_lock", "sa_insert"}, NEW doc,
             Hold(w, place, doc)
      PROVE  job'[v] = job[v] \/ job'[v].at \notin {"sa_lock", "sa_insert"}
  BY <1>t, <1>2, HoldMoves
<1>3. ASSUME NEW w \in Workers, Go(w, Idle) PROVE job'[v] = job[v] \/ job'[v] = Idle
  BY <1>t, <1>3 DEF Go
<1>4. ASSUME NEW w \in Workers, Lock(w) PROVE job'[v] = job[v] \/ Lock(v)
  BY <1>t, <1>4, GoToMoves DEF Lock
<1>5. ASSUME NEW w \in Workers, NEW ip \in Ips, NEW email \in Emails, create_sa(w, ip, email)
      PROVE  job'[v] = job[v] \/ create_sa(v, ip, email)
  BY <1>t, <1>5 DEF create_sa, Go
<1>6. ASSUME \/ \E ip \in Ips : bootstrap_status(ip)
             \/ ProvisionSU \/ RemovePark \/ UNCHANGED vars
      PROVE  job'[v] = job[v]
  BY <1>6 DEF bootstrap_status, ProvisionSU, RemovePark, vars
<1>7. CASE Restart
  BY <1>t, <1>7 DEF Restart
<1>8. ASSUME NEW w \in Workers,
             \/ Insert(w) \/ Session(w) \/ bootstrap_forgejo(w) \/ RoundTrip(w) \/ Truncate(w)
      PROVE  job'[v] = job[v] \/ job'[v].at \notin {"sa_lock", "sa_insert"}
  BY <1>1, <1>8 DEF Insert, Session, bootstrap_forgejo, RoundTrip, Truncate, Places
<1>9. ASSUME NEW w \in Workers,
             \/ CreateAdmin(w) \/ CreateService(w) \/ CreateToken(w) \/ ChangePassword(w)
             \/ reset_admin(w) \/ reset_service_token(w) \/ verify(w)
      PROVE  job'[v] = job[v] \/ job'[v].at \notin {"sa_lock", "sa_insert"}
  <2>1. PICK place \in {"service", "token", "truncate", "new_admin", "new_token", "verify"} :
          \E doc : Hold(w, place, doc)
    BY <1>9, Zenon DEF CreateAdmin, CreateService, CreateToken, ChangePassword, reset_admin,
                       reset_service_token, verify, Read
  <2>2. place \in Places \ {"sa_lock", "sa_insert"}
    BY <2>1 DEF Places
  <2> QED BY <1>2, <2>1, <2>2
<1>10. ASSUME NEW w \in Workers, _clear_first_ip_lock(w) \/ park_write(w) \/ Abandon(w)
       PROVE  job'[v] = job[v] \/ job'[v] = Idle
  BY <1>3, <1>10 DEF _clear_first_ip_lock, park_write, Abandon
<1> QED
  BY <1>4, <1>5, <1>6, <1>7, <1>8, <1>9, <1>10 DEF Next

\* No step lets a shell, or a job without an address, come to the insert.
LEMMA EnrolsStep == Typed /\ Enrols /\ [Next]_vars => Enrols'
<1> SUFFICES ASSUME Typed, Enrols, [Next]_vars,
                    NEW v \in Workers, job'[v].at \in {"sa_lock", "sa_insert"}
             PROVE  v \in Requests /\ job'[v].email \in Emails
  BY DEF Enrols
<1>t. Typed /\ Enrols
  OBVIOUS
<1>1. CASE job'[v] = job[v]
  BY <1>t, <1>1 DEF Enrols
<1>2. ASSUME NEW ip \in Ips, NEW email \in Emails, create_sa(v, ip, email)
      PROVE  v \in Requests /\ job'[v].email \in Emails
  BY <1>t, <1>2 DEF create_sa, Go, Typed
<1>3. CASE Lock(v)
  <2>1. job'[v].email = job[v].email
    BY <1>t, <1>3, GoToMoves DEF Lock, Typed
  <2> QED BY <1>t, <1>3, <2>1 DEF Lock, Enrols
<1>4. job'[v] # Idle
  BY DEF Idle
<1> QED
  BY <1>1, <1>2, <1>3, <1>4, <1>t, OneMove

LEMMA TypedInit == Init => Typed /\ Enrols
<1> SUFFICES ASSUME Init PROVE Typed /\ Enrols
  OBVIOUS
<1>1. job \in [Workers -> JobRow]
  BY IdleRow DEF Init
<1>2. forgejo \in [admin : 0 .. minted, service : 0 .. minted, tokens : SUBSET (1 .. minted)]
  <2>1. 0 \in 0 .. minted /\ {} \in SUBSET (1 .. minted)
    BY DEF Init
  <2>2. forgejo = [admin |-> 0, service |-> 0, tokens |-> {}]
    BY DEF Init
  <2> QED BY <2>1, <2>2
<1>3. Enrols
  <2>1. \A w \in Workers : job[w].at = "idle"
    BY DEF Init, Idle
  <2> QED BY <2>1 DEF Enrols
<1>4. minted \in Nat /\ minted <= MaxSecrets
  BY InstallAssumption DEF Init
<1>5. sas = {} /\ su = FALSE /\ firstIp = None /\ park = None
  BY DEF Init
<1> QED BY <1>1, <1>2, <1>3, <1>4, <1>5 DEF Typed

\* Every variable keeps its type, and every secret in use is one that was made.
THEOREM TypeCorrect == Spec => []TypeOK
  BY TypedInit, TypedStep, EnrolsStep, TypedIsTypeOK, PTL DEF Spec

-----------------------------------------------------------------------------
(* The super admins *)

Pending == {w \in Requests : job[w].at \in {"sa_lock", "sa_insert"}}

\* The super admins, and the requests that may still make one, are no more than the
\* requests: once there is one, no request starts to make another.
Room ==
  /\ IsFiniteSet(sas)
  /\ Cardinality(sas) + Cardinality(Pending) <= Cardinality(Requests)

LEMMA RoomStep == Typed /\ Enrols /\ Room /\ [Next]_vars => Room'
<1> SUFFICES ASSUME Typed, Enrols, Room, [Next]_vars PROVE Room'
  OBVIOUS
<1>fin. IsFiniteSet(Requests) /\ Cardinality(Requests) \in Nat
  BY InstallAssumption, FS_CardinalityType
<1>pend. /\ IsFiniteSet(Pending) /\ Cardinality(Pending) \in Nat
         /\ IsFiniteSet(Pending') /\ Cardinality(Pending') \in Nat
         /\ Cardinality(Pending') <= Cardinality(Requests)
  BY <1>fin, FS_Subset, FS_CardinalityType DEF Pending
<1>sas. Cardinality(sas) \in Nat
  BY FS_CardinalityType DEF Room
<1>1. ASSUME NEW w \in Workers, Insert(w) PROVE Room'
  <2>1. /\ IsFiniteSet(sas') /\ Cardinality(sas') = Cardinality(sas) + 1
    BY <1>1, FS_AddElement DEF Insert, Room
  <2>2. w \in Pending /\ Pending' \subseteq Pending \ {w}
    <3>1. w \in Pending
      BY <1>1 DEF Insert, Enrols, Pending
    <3>2. /\ job'[w].at = "sa_session" /\ \A v \in Workers \ {w} : job'[v] = job[v]
      BY <1>1, GoToMoves DEF Insert, Typed
    <3> QED BY <3>1, <3>2 DEF Pending, Workers
  <2>3. Cardinality(Pending \ {w}) = Cardinality(Pending) - 1
    BY <1>pend, <2>2, FS_RemoveElement
  <2>4. IsFiniteSet(Pending \ {w}) /\ Cardinality(Pending') <= Cardinality(Pending \ {w})
    BY <1>pend, <2>2, FS_RemoveElement, FS_Subset
  <2> QED BY <1>fin, <1>pend, <1>sas, <2>1, <2>3, <2>4 DEF Room
<1>2. ASSUME NEW w \in Workers, NEW ip \in Ips, NEW email \in Emails, create_sa(w, ip, email)
      PROVE  Room'
  <2>1. sas' = {}
    BY <1>2 DEF create_sa, NoSuperAdmin
  <2> QED BY <1>fin, <1>pend, <2>1, FS_EmptySet DEF Room
<1>3. CASE /\ \A w \in Workers : ~Insert(w)
           /\ \A w \in Workers, ip \in Ips, email \in Emails : ~create_sa(w, ip, email)
  <2>1. sas' = sas
    BY <1>3 DEF Next, vars, bootstrap_status, ProvisionSU, Restart, RemovePark, Lock, Session,
                _clear_first_ip_lock, bootstrap_forgejo, CreateAdmin, CreateService, CreateToken,
                reset_admin, reset_service_token, verify, Read, ChangePassword, RoundTrip, Truncate,
                park_write, Abandon
  <2>2. ASSUME NEW v \in Pending' PROVE v \in Pending
    <3>1. v \in Workers /\ v \in Requests /\ job'[v].at \in {"sa_lock", "sa_insert"}
      BY <2>2 DEF Pending, Workers
    <3>2. job'[v] = job[v] \/ Lock(v)
      BY <1>3, <3>1, OneMove DEF Idle
    <3> QED BY <3>1, <3>2 DEF Pending, Lock
  <2>3. Cardinality(Pending') <= Cardinality(Pending)
    BY <1>pend, <2>2, FS_Subset
  <2> QED BY <1>fin, <1>pend, <1>sas, <2>1, <2>3 DEF Room
<1> QED BY <1>1, <1>2, <1>3

\* However requests overlap, they make no more super admins than there are of them.
THEOREM OvershootIsBounded == Spec => []SuperAdminsOvershoot
<1>1. Init => Room
  <2> SUFFICES ASSUME Init PROVE Room
    OBVIOUS
  <2>1. sas = {} /\ Pending = {}
    BY DEF Init, Pending, Idle, Workers
  <2>2. Cardinality(Requests) \in Nat
    BY InstallAssumption, FS_CardinalityType
  <2> QED BY <2>1, <2>2, FS_EmptySet DEF Room
<1>2. Room => SuperAdminsOvershoot
  <2> SUFFICES ASSUME Room PROVE SuperAdminsOvershoot
    OBVIOUS
  <2>1. Cardinality(sas) \in Nat /\ Cardinality(Requests) \in Nat
    BY InstallAssumption, FS_CardinalityType DEF Room
  <2>2. Cardinality(Pending) \in Nat
    BY InstallAssumption, FS_Subset, FS_CardinalityType DEF Pending
  <2> QED BY <2>1, <2>2 DEF Room, SuperAdminsOvershoot
<1> QED BY <1>1, <1>2, TypedInit, TypedStep, EnrolsStep, RoomStep, PTL DEF Spec

-----------------------------------------------------------------------------
(* The park file *)

\* The document names the password the service account has, and a token that is good.
Fits(doc) ==
  doc.service = forgejo.service /\ doc.service # 0 /\ doc.token \in forgejo.tokens

\* What a job holds between its reading and its writing fits, and so does what it read.
Holds ==
  /\ park \notin {None, Torn} => Fits(park)
  /\ \A w \in Workers :
       /\ job[w].at \in {"new_admin", "new_token", "verify", "truncate", "write"} => Fits(job[w].doc)
       /\ job[w].at = "token" => job[w].doc.service = forgejo.service /\ job[w].doc.service # 0

\* A step of one worker keeps Holds if Forgejo goes on honouring what fitted, if what it
\* leaves in the file fits, and what it holds itself.
LEMMA StepHolds ==
  ASSUME Typed, Holds, NEW w \in Workers,
         \A v \in Workers \ {w} : job'[v] = job[v],
         forgejo'.service = forgejo.service, forgejo.tokens \subseteq forgejo'.tokens,
         park' = park \/ park' \in {None, Torn} \/ Fits(park'),
         job'[w].at \in {"new_admin", "new_token", "verify", "truncate", "write"}
           => Fits(job[w].doc)',
         job'[w].at = "token" => job'[w].doc.service = forgejo.service /\ job'[w].doc.service # 0
  PROVE  Holds'
  BY DEF Holds, Fits

LEMMA HoldsStep == Typed /\ Holds /\ [Next]_vars => Holds'
<1> SUFFICES ASSUME Typed, Holds, [Next]_vars PROVE Holds'
  OBVIOUS
<1>t. job \in [Workers -> JobRow]
  BY DEF Typed
<1>1. ASSUME \/ \E ip \in Ips : bootstrap_status(ip)
             \/ ProvisionSU \/ RemovePark \/ UNCHANGED vars
      PROVE  Holds'
  <2>1. job' = job /\ forgejo' = forgejo /\ (park' = park \/ park' = None)
    BY <1>1 DEF bootstrap_status, ProvisionSU, RemovePark, vars
  <2> QED BY <2>1 DEF Holds, Fits
<1>2. CASE Restart
  <2>1. \A v \in Workers : job'[v] = job[v] \/ job'[v].at = "idle"
    BY <1>t, <1>2 DEF Restart, Idle
  <2>2. forgejo' = forgejo /\ park' = park
    BY <1>2 DEF Restart
  <2> QED BY <2>1, <2>2 DEF Holds, Fits
<1>3. ASSUME NEW w \in Workers, NEW ip \in Ips, NEW email \in Emails, create_sa(w, ip, email)
      PROVE  Holds'
  <2>1. job'[w].at = "sa_lock" /\ \A v \in Workers \ {w} : job'[v] = job[v]
    BY <1>t, <1>3 DEF create_sa, Go
  <2>2. forgejo' = forgejo /\ park' = park
    BY <1>3 DEF create_sa
  <2> QED BY <2>1, <2>2, StepHolds
<1>4. ASSUME NEW w \in Workers,
             \/ Lock(w) \/ Insert(w) \/ Session(w) \/ bootstrap_forgejo(w)
      PROVE  Holds'
  <2>1. PICK place \in {"sa_insert", "sa_session", "sa_clear", "admin"} : GoTo(w, place)
    BY <1>4 DEF Lock, Insert, Session, bootstrap_forgejo
  <2>2. job'[w].at = place /\ \A v \in Workers \ {w} : job'[v] = job[v]
    BY <1>t, <2>1, GoToMoves
  <2>3. forgejo' = forgejo /\ park' = park
    BY <1>4 DEF Lock, Insert, Session, bootstrap_forgejo
  <2> QED BY <2>1, <2>2, <2>3, StepHolds
<1>5. ASSUME NEW w \in Workers, _clear_first_ip_lock(w) \/ park_write(w) \/ Abandon(w)
      PROVE  Holds'
  <2>1. job'[w].at = "idle" /\ \A v \in Workers \ {w} : job'[v] = job[v]
    BY <1>t, <1>5 DEF _clear_first_ip_lock, park_write, Abandon, Go, Idle
  <2>2. forgejo' = forgejo
    BY <1>5 DEF _clear_first_ip_lock, park_write, Abandon
  <2>3. park' = park \/ Fits(park')
    BY <1>5 DEF _clear_first_ip_lock, park_write, Abandon, Holds
  <2> QED BY <2>1, <2>2, <2>3, StepHolds
<1>6. ASSUME NEW w \in Workers, RoundTrip(w) \/ Truncate(w) PROVE Holds'
  <2>1. PICK place : GoTo(w, place)
    BY <1>6 DEF RoundTrip, Truncate
  <2>2. job'[w].at \in {"truncate", "write"} /\ Fits(job[w].doc)
    BY <1>t, <1>6, GoToMoves DEF RoundTrip, Truncate, Holds
  <2>3. job'[w].doc = job[w].doc /\ \A v \in Workers \ {w} : job'[v] = job[v]
    BY <1>t, <2>1, GoToMoves
  <2>4. forgejo' = forgejo /\ (park' = park \/ park' = Torn)
    BY <1>6 DEF RoundTrip, Truncate
  <2>5. Fits(job[w].doc)'
    BY <2>2, <2>3, <2>4 DEF Fits
  <2> QED BY <2>2, <2>3, <2>4, <2>5, StepHolds
<1>7. ASSUME NEW w \in Workers, reset_admin(w) \/ reset_service_token(w) \/ verify(w)
      PROVE  Holds'
  <2>1. PICK place \in {"new_admin", "new_token", "verify"} : Read(w, place)
    BY <1>7 DEF reset_admin, reset_service_token, verify
  <2>2. job'[w].at = place /\ job'[w].doc = park /\ \A v \in Workers \ {w} : job'[v] = job[v]
    BY <1>t, <2>1, HoldMoves DEF Read
  <2>3. forgejo' = forgejo /\ park' = park /\ Fits(park)
    BY <2>1 DEF Read, Holds
  <2>4. Fits(job[w].doc)'
    BY <2>2, <2>3 DEF Fits
  <2> QED BY <2>1, <2>2, <2>3, <2>4, StepHolds
<1>8. ASSUME NEW w \in Workers, CreateService(w) PROVE Holds'
  <2>1. /\ gen_password # 0 /\ forgejo.service = 0
    BY <1>8, MintRange DEF CreateService, Typed
  <2>2. \A v \in Workers :
          job[v].at \notin {"token", "new_admin", "new_token", "verify", "truncate", "write"}
    BY <2>1 DEF Holds, Fits
  <2>3. park \in {None, Torn} /\ park' = park
    BY <1>8, <2>1 DEF Holds, Fits, CreateService
  <2>4. /\ job'[w].at = "token" /\ job'[w].doc = [job[w].doc EXCEPT !.service = gen_password]
        /\ \A v \in Workers \ {w} : job'[v] = job[v]
    BY <1>t, <1>8, HoldMoves DEF CreateService
  <2>5. job'[w].doc.service = gen_password /\ forgejo'.service = gen_password
    <3>1. job[w].doc \in Doc
      BY <1>t DEF JobRow
    <3>2. forgejo' = [forgejo EXCEPT !.service = gen_password]
      BY <1>8 DEF CreateService
    <3> QED BY <2>4, <3>1, <3>2 DEF Doc, Typed
  <2> QED BY <2>1, <2>2, <2>3, <2>4, <2>5 DEF Holds
<1>9. ASSUME NEW w \in Workers, CreateAdmin(w) \/ CreateToken(w) \/ ChangePassword(w)
      PROVE  Holds'
  <2>d. job[w].doc \in Doc
    BY <1>t DEF JobRow
  <2>1. /\ forgejo'.service = forgejo.service /\ forgejo.tokens \subseteq forgejo'.tokens
        /\ CreateToken(w) => gen_password \in forgejo'.tokens
    <3>1. CASE CreateAdmin(w) \/ ChangePassword(w)
      <4>1. forgejo' = [forgejo EXCEPT !.admin = gen_password]
        BY <3>1 DEF CreateAdmin, ChangePassword
      <4>2. ~CreateToken(w)
        BY <3>1 DEF CreateAdmin, ChangePassword, CreateToken
      <4> QED BY <4>1, <4>2 DEF Typed
    <3>2. CASE CreateToken(w)
      <4>1. forgejo' = [forgejo EXCEPT !.tokens = Issue(@, gen_password)]
        BY <3>2 DEF CreateToken
      <4> QED BY <4>1 DEF Typed, Issue
    <3> QED BY <1>9, <3>1, <3>2
  <2>2. park' = park
    BY <1>9 DEF CreateAdmin, CreateToken, ChangePassword
  <2>3. CASE CreateAdmin(w)
    <3>1. job'[w].at = "service" /\ \A v \in Workers \ {w} : job'[v] = job[v]
      BY <1>t, <2>3, HoldMoves DEF CreateAdmin
    <3> QED BY <2>1, <2>2, <3>1, StepHolds
  <2>4. CASE CreateToken(w)
    <3>1. /\ job'[w].at = "truncate" /\ job'[w].doc = [job[w].doc EXCEPT !.token = gen_password]
          /\ \A v \in Workers \ {w} : job'[v] = job[v]
      BY <1>t, <2>4, HoldMoves DEF CreateToken
    <3>2. job[w].doc.service = forgejo.service /\ job[w].doc.service # 0
      BY <2>4 DEF CreateToken, Holds, Fits
    <3>3. job'[w].doc.service = job[w].doc.service /\ job'[w].doc.token = gen_password
      BY <2>d, <3>1 DEF Doc
    <3>4. Fits(job[w].doc)'
      BY <2>1, <2>4, <3>2, <3>3 DEF Fits
    <3> QED BY <2>1, <2>2, <3>1, <3>4, StepHolds
  <2>5. CASE ChangePassword(w)
    <3>1. /\ job'[w].at = "truncate" /\ job'[w].doc = [job[w].doc EXCEPT !.admin = gen_password]
          /\ \A v \in Workers \ {w} : job'[v] = job[v]
      BY <1>t, <2>5, HoldMoves DEF ChangePassword
    <3>2. Fits(job[w].doc)
      BY <2>5 DEF ChangePassword, Holds
    <3>3. job'[w].doc.service = job[w].doc.service /\ job'[w].doc.token = job[w].doc.token
      BY <2>d, <3>1 DEF Doc
    <3>4. Fits(job[w].doc)'
      BY <2>1, <3>2, <3>3 DEF Fits
    <3> QED BY <2>1, <2>2, <3>1, <3>4, StepHolds
  <2> QED BY <1>9, <2>3, <2>4, <2>5
<1> QED
  BY <1>1, <1>2, <1>3, <1>4, <1>5, <1>6, <1>7, <1>8, <1>9 DEF Next

\* Whatever jobs overlap and wherever one ends, a park file that can be read holds the
\* service account's password and a good token.
THEOREM ParkHolds == Spec => []ParkIsUsable
<1>1. Init => Holds
  <2> SUFFICES ASSUME Init PROVE Holds
    OBVIOUS
  <2>1. park = None /\ \A w \in Workers : job[w].at = "idle"
    BY DEF Init, Idle
  <2> QED BY <2>1 DEF Holds
<1>2. Holds => ParkIsUsable
  BY DEF Holds, Fits, ParkIsUsable
<1> QED BY <1>1, <1>2, TypedInit, TypedStep, EnrolsStep, HoldsStep, PTL DEF Spec
-----------------------------------------------------------------------------
(* Sessions *)

\* What a request writes over a row: a beat, a new end of the elevation, a revocation.
Beats == [quiet : 0..StaleMax, left : 0..CapMax]
Terms == [elev : 0..TTL]
Marks == [revoked : {TRUE}]
Changes == Beats \cup Terms \cup Marks

Writes == [rows : UNION {[S -> Changes] : S \in SUBSET Ids},
           born : UNION {[S -> SessionRow] : S \in SUBSET Ids}, gone : SUBSET Ids]

\* What a session's row becomes but by a commit: the same session, no longer,
\* no more of a session and no more elevated.
Worn(r, n) ==
  /\ n \in SessionRow /\ n.user = r.user /\ n.type = r.type
  /\ n.left > 0 => r.left > 0
  /\ r.revoked => n.revoked
  /\ n.elev > 0 => r.elev > 0

\* What the gate and the sweep make of it: all but the revocation is as it was.
Looked(r, n) ==
  /\ n \in SessionRow /\ n.user = r.user /\ n.type = r.type
  /\ n.age = r.age /\ n.left = r.left
  /\ r.revoked => n.revoked
  /\ n.elev > 0 <=> r.elev > 0

Rows == [Ids -> SessionRow \cup {Null}]

AllWorn(f, g) ==
  /\ g \in Rows
  /\ \A s \in Ids : IF f[s] = Null THEN g[s] = Null ELSE Worn(f[s], g[s])

AllLooked(f, g) ==
  /\ g \in Rows
  /\ \A s \in Ids : IF f[s] = Null THEN g[s] = Null ELSE Looked(f[s], g[s])

LEMMA Bounds ==
  /\ MaxIds \in Nat /\ StaleMax \in Nat /\ CapMax \in Nat /\ TTL \in Nat /\ TTL > 0 /\ TTL <= CapMax
  /\ ConcurrentMax \in Nat
  BY SessionAssumption

\* The columns of a row.
LEMMA SessionKeys ==
  ASSUME NEW r \in SessionRow
  PROVE  /\ DOMAIN r = {"user", "type", "age", "left", "elev", "quiet", "revoked"}
         /\ r.user \in Users \cup {SA} /\ r.type \in {"user", "sa"} /\ r.age \in 0..CapMax
         /\ r.left \in 0..CapMax /\ r.elev \in 0..TTL /\ r.quiet \in 0..StaleMax \cup {Null}
         /\ r.revoked \in BOOLEAN /\ r # Null
  BY NullAssumption DEF SessionRow

\* What each kind of write makes of a row.
LEMMA OverBeat ==
  ASSUME NEW r \in SessionRow, NEW c \in Beats
  PROVE  /\ Over(c, r) \in SessionRow /\ Over(c, r).user = r.user /\ Over(c, r).type = r.type
         /\ Over(c, r).left = c.left /\ Over(c, r).elev = r.elev /\ Over(c, r).revoked = r.revoked
         /\ c.left \in 0..CapMax
<1>1. DOMAIN c = {"quiet", "left"} /\ c.quiet \in 0..StaleMax /\ c.left \in 0..CapMax
  BY DEF Beats
<1> QED BY <1>1, SessionKeys DEF Over, SessionRow

LEMMA OverTerm ==
  ASSUME NEW r \in SessionRow, NEW c \in Terms
  PROVE  /\ Over(c, r) \in SessionRow /\ Over(c, r).user = r.user /\ Over(c, r).type = r.type
         /\ Over(c, r).age = r.age
         /\ Over(c, r).left = r.left /\ Over(c, r).elev = c.elev /\ Over(c, r).revoked = r.revoked
<1>1. DOMAIN c = {"elev"} /\ c.elev \in 0..TTL
  BY DEF Terms
<1> QED BY <1>1, SessionKeys DEF Over, SessionRow

LEMMA OverMark ==
  ASSUME NEW r \in SessionRow, NEW c \in Marks
  PROVE  /\ Over(c, r) \in SessionRow /\ Over(c, r).user = r.user /\ Over(c, r).type = r.type
         /\ Over(c, r).age = r.age
         /\ Over(c, r).left = r.left /\ Over(c, r).elev = r.elev /\ Over(c, r).revoked
<1>1. DOMAIN c = {"revoked"} /\ c.revoked = TRUE
  BY DEF Marks
<1> QED BY <1>1, SessionKeys DEF Over, SessionRow

LEMMA OverTouch ==
  ASSUME NEW r \in SessionRow
  PROVE  Looked(r, Over([quiet |-> 0], r))
<1> DEFINE n == Over([quiet |-> 0], r)
<1>1. n \in SessionRow
  BY SessionKeys, Bounds DEF Over, SessionRow
<1>2. /\ n.user = r.user /\ n.type = r.type /\ n.age = r.age /\ n.left = r.left
      /\ n.elev = r.elev /\ n.revoked = r.revoked
  BY SessionKeys DEF Over
<1> HIDE DEF n
<1>3. Looked(r, n)
  BY <1>1, <1>2 DEF Looked
<1> QED BY <1>3 DEF n

\* What time makes of a row, and of a write that waits.
LEMMA OlderSession ==
  ASSUME NEW r \in SessionRow
  PROVE  Worn(r, Older(r))
<1> DEFINE n == Older(r)
<1>1. /\ DOMAIN n = {"user", "type", "age", "left", "elev", "quiet", "revoked"}
      /\ n = [k \in DOMAIN r |-> n[k]]
      /\ n.user = Later("user", r.user) /\ n.type = Later("type", r.type)
      /\ n.age = Later("age", r.age) /\ n.left = Later("left", r.left)
      /\ n.elev = Later("elev", r.elev) /\ n.quiet = Later("quiet", r.quiet)
      /\ n.revoked = Later("revoked", r.revoked)
  BY SessionKeys DEF Older
<1>2. /\ n.user = r.user /\ n.type = r.type /\ n.revoked = r.revoked
      /\ n.age = Lower(r.age + 1, CapMax)
      /\ n.left = (IF r.left = 0 THEN 0 ELSE r.left - 1)
      /\ n.elev = (IF r.elev = 0 THEN 0 ELSE r.elev - 1)
      /\ n.quiet = (IF r.quiet = Null THEN Null ELSE Lower(r.quiet + 1, StaleMax))
  BY <1>1 DEF Later
<1> HIDE DEF n
<1>3. /\ n.age \in 0..CapMax /\ n.left \in 0..CapMax /\ n.elev \in 0..TTL
      /\ n.quiet \in 0..StaleMax \cup {Null}
      /\ (n.left > 0 => r.left > 0) /\ (n.elev > 0 => r.elev > 0)
  BY <1>2, SessionKeys, Bounds DEF Lower
<1>4. n \in SessionRow
  BY <1>1, <1>2, <1>3, SessionKeys DEF SessionRow
<1>5. Worn(r, n)
  BY <1>2, <1>3, <1>4 DEF Worn
<1> QED BY <1>5 DEF n

LEMMA OlderChange ==
  ASSUME NEW c \in Changes
  PROVE  /\ Older(c) \in Changes
         /\ c \in Marks => Older(c) \in Marks
         /\ c \notin Terms => Older(c) \notin Terms
         /\ c \in Terms => Older(c) \in Terms /\ c.elev \in Nat /\ Older(c).elev <= c.elev
<1>0. /\ \A x \in Beats : DOMAIN x = {"quiet", "left"}
      /\ \A x \in Terms : DOMAIN x = {"elev"}
      /\ \A x \in Marks : DOMAIN x = {"revoked"}
  BY DEF Beats, Terms, Marks
<1>1. CASE c \in Beats
  <2>1. DOMAIN c = {"quiet", "left"} /\ c.quiet \in 0..StaleMax /\ c.left \in 0..CapMax
    BY <1>1 DEF Beats
  <2>2. /\ Older(c).quiet = Later("quiet", c.quiet) /\ Older(c).left = Later("left", c.left)
        /\ Older(c) = [k \in {"quiet", "left"} |-> Older(c)[k]]
    BY <2>1 DEF Older
  <2>3. Older(c).quiet \in 0..StaleMax /\ Older(c).left \in 0..CapMax
    BY <2>1, <2>2, Bounds, SessionAssumption DEF Later, Lower
  <2>4. Older(c) \in Beats
    BY <2>2, <2>3 DEF Beats
  <2> QED BY <1>0, <1>1, <2>4 DEF Changes
<1>2. CASE c \in Terms
  <2>1. DOMAIN c = {"elev"} /\ c.elev \in 0..TTL
    BY <1>2 DEF Terms
  <2>2. Older(c).elev = Later("elev", c.elev) /\ Older(c) = [k \in {"elev"} |-> Older(c)[k]]
    BY <2>1 DEF Older
  <2>3. Older(c).elev = (IF c.elev = 0 THEN 0 ELSE c.elev - 1)
    BY <2>2 DEF Later
  <2>4. Older(c).elev \in 0..TTL /\ Older(c).elev <= c.elev /\ c.elev \in Nat
    BY <2>1, <2>3, Bounds
  <2>5. Older(c) \in Terms
    BY <2>2, <2>4 DEF Terms
  <2> QED BY <1>0, <1>2, <2>4, <2>5 DEF Changes
<1>3. CASE c \in Marks
  <2>1. DOMAIN c = {"revoked"} /\ c.revoked = TRUE
    BY <1>3 DEF Marks
  <2>2. Older(c).revoked = Later("revoked", c.revoked) /\ Older(c) = [k \in {"revoked"} |-> Older(c)[k]]
    BY <2>1 DEF Older
  <2>3. Older(c).revoked = TRUE
    BY <2>1, <2>2 DEF Later
  <2>5. Older(c) \in Marks
    BY <2>2, <2>3 DEF Marks
  <2> QED BY <1>0, <1>3, <2>5 DEF Changes
<1> QED BY <1>1, <1>2, <1>3 DEF Changes
-----------------------------------------------------------------------------
Caps == {p["concurrent"] : p \in Policies}

\* TypeOK with the requests' writes and what an operator may have set.
Types ==
  /\ sess \in Rows /\ used \in 0..MaxIds
  /\ policy \in [Knobs -> Nat] /\ policy["slide"] \in 1..CapMax /\ policy["cap"] \in 1..CapMax
  /\ policy["concurrent"] \in Caps
  /\ account \in [Users \cup {SA} -> Account]
  /\ unit \in [Threads -> Writes] /\ alone \in [Threads -> BOOLEAN]

\* What a request is about to write, and what one without writes is.
LEMMA WritesParts ==
  ASSUME NEW q \in Writes
  PROVE  /\ DOMAIN q.rows \subseteq Ids /\ DOMAIN q.born \subseteq Ids /\ q.gone \subseteq Ids
         /\ \A s \in DOMAIN q.rows : q.rows[s] \in Changes
         /\ \A s \in DOMAIN q.born : q.born[s] \in SessionRow
  BY DEF Writes

LEMMA NothingIsWrites ==
  /\ Nothing \in Writes /\ Nothing.rows = NoRows /\ Nothing.born = NoRows /\ Nothing.gone = {}
  /\ DOMAIN NoRows = {}
<1>1. NoRows \in [{} -> Changes] /\ NoRows \in [{} -> SessionRow] /\ DOMAIN NoRows = {}
  BY DEF NoRows
<1> QED BY <1>1 DEF Nothing, Writes

\* The changes of one row, and of none.
LEMMA OnlyRange ==
  ASSUME NEW s \in Ids
  PROVE  /\ \A c : DOMAIN Only(s, c) = {s} /\ Only(s, c)[s] = c
         /\ \A c \in Changes : Only(s, c) \in UNION {[S -> Changes] : S \in SUBSET Ids}
         /\ \A r \in SessionRow : Only(s, r) \in UNION {[S -> SessionRow] : S \in SUBSET Ids}
<1>1. \A c \in Changes : Only(s, c) \in [{s} -> Changes]
  BY DEF Only
<1>2. \A r \in SessionRow : Only(s, r) \in [{s} -> SessionRow]
  BY DEF Only
<1> QED BY <1>1, <1>2 DEF Only

\* The gate, the sweep and the visit look; time wears.
LEMMA LookedIsWorn ==
  ASSUME NEW f, NEW g, AllLooked(f, g)
  PROVE  AllWorn(f, g)
<1>1. ASSUME NEW s \in Ids, f[s] # Null
      PROVE  Worn(f[s], g[s])
  BY <1>1 DEF AllLooked, Looked, Worn
<1> QED BY <1>1 DEF AllLooked, AllWorn

LEMMA SameIsLooked ==
  ASSUME sess \in Rows
  PROVE  AllLooked(sess, sess)
  BY DEF AllLooked, Looked, Rows

LEMMA TouchedIsLooked ==
  ASSUME sess \in Rows, NEW b
  PROVE  AllLooked(sess, Touched(b))
<1>1. \A s \in _get_session_user(b) : s \in Ids /\ sess[s] # Null
  BY DEF _get_session_user, OfBoard, Live, Unexpired
<1>2. ASSUME NEW s \in Ids
      PROVE  /\ Touched(b)[s] \in SessionRow \cup {Null}
             /\ IF sess[s] = Null THEN Touched(b)[s] = Null ELSE Looked(sess[s], Touched(b)[s])
  <2>1. CASE s \in _get_session_user(b)
    <3>1. sess[s] \in SessionRow /\ Touched(b)[s] = Over([quiet |-> 0], sess[s])
      BY <1>1, <2>1 DEF Touched, With, Rows
    <3>2. Looked(sess[s], Touched(b)[s])
      BY <3>1, OverTouch
    <3>3. Touched(b)[s] \in SessionRow
      BY <3>2 DEF Looked
    <3> QED BY <1>1, <2>1, <3>2, <3>3
  <2>2. CASE s \notin _get_session_user(b)
    <3>1. Touched(b)[s] = sess[s]
      BY <2>2 DEF Touched, With
    <3> QED BY <3>1 DEF Looked, Rows
  <2> QED BY <2>1, <2>2
<1>3. Touched(b) = [s \in Ids |-> Touched(b)[s]]
  BY DEF Touched, With
<1> QED BY <1>2, <1>3 DEF AllLooked, Rows

LEMMA GateIsLooked ==
  ASSUME sess \in Rows, NEW b
  PROVE  AllLooked(sess, AfterGate(b))
<1>1. CASE _get_sa_user(b) # {}
  BY <1>1, TouchedIsLooked DEF AfterGate
<1>2. CASE _get_sa_user(b) = {}
  <2> DEFINE S == _get_elevated_su(b)
             g == With(S, [elev |-> TTL])
  <2>1. \A s \in S : s \in Ids /\ sess[s] # Null /\ sess[s].elev > 0
    BY DEF _get_elevated_su, OfBoard, Unexpired
  <2>2. [elev |-> TTL] \in Terms /\ TTL > 0
    BY Bounds DEF Terms
  <2>3. g = [s \in Ids |-> IF s \in S THEN Over([elev |-> TTL], sess[s]) ELSE sess[s]]
    BY DEF With
  <2> HIDE DEF g, S
  <2>4. ASSUME NEW s \in Ids
        PROVE  /\ g[s] \in SessionRow \cup {Null}
               /\ IF sess[s] = Null THEN g[s] = Null ELSE Looked(sess[s], g[s])
    <3>1. CASE s \in S
      <4>1. sess[s] \in SessionRow /\ g[s] = Over([elev |-> TTL], sess[s]) /\ sess[s].elev > 0
        BY <2>1, <2>3, <3>1 DEF Rows
      <4>2. Over([elev |-> TTL], sess[s]).elev = TTL
        BY <2>2, <4>1, OverTerm
      <4> QED BY <2>2, <4>1, <4>2, OverTerm, SessionKeys DEF Looked
    <3>2. CASE s \notin S
      <4>1. g[s] = sess[s]
        BY <2>3, <3>2
      <4> QED BY <4>1 DEF Looked, Rows
    <3> QED BY <3>1, <3>2
  <2>5. AllLooked(sess, g)
    BY <2>3, <2>4 DEF AllLooked, Rows
  <2> QED BY <1>2, <2>5 DEF AfterGate, g, S
<1> QED BY <1>1, <1>2

LEMMA SweptIsLooked ==
  ASSUME sess \in Rows, NEW g, AllLooked(sess, g)
  PROVE  AllLooked(sess, Swept(g))
<1> DEFINE h == Swept(g)
<1>1. h = [s \in Ids |-> IF Stale(g[s]) THEN Over([revoked |-> TRUE], g[s]) ELSE g[s]]
  BY DEF Swept
<1>2. [revoked |-> TRUE] \in Marks
  BY DEF Marks
<1> HIDE DEF h
<1>3. ASSUME NEW s \in Ids
      PROVE  /\ h[s] \in SessionRow \cup {Null}
             /\ IF sess[s] = Null THEN h[s] = Null ELSE Looked(sess[s], h[s])
  <2>1. CASE Stale(g[s])
    <3>1. g[s] # Null /\ g[s] \in SessionRow /\ sess[s] # Null /\ Looked(sess[s], g[s])
      BY <2>1 DEF Stale, AllLooked, Rows
    <3>2. h[s] = Over([revoked |-> TRUE], g[s])
      BY <1>1, <2>1
    <3> QED BY <1>2, <3>1, <3>2, OverMark DEF Looked
  <2>2. CASE ~Stale(g[s])
    <3>1. h[s] = g[s]
      BY <1>1, <2>2
    <3> QED BY <3>1 DEF AllLooked, Rows
  <2> QED BY <2>1, <2>2
<1>4. AllLooked(sess, h)
  BY <1>1, <1>3 DEF AllLooked, Rows
<1> QED BY <1>4 DEF h

LEMMA TickIsWorn ==
  ASSUME sess \in Rows, Tick
  PROVE  AllWorn(sess, sess')
<1>1. sess' = [s \in Ids |-> IF sess[s] = Null THEN Null ELSE Older(sess[s])]
  BY DEF Tick
<1>2. ASSUME NEW s \in Ids
      PROVE  /\ sess'[s] \in SessionRow \cup {Null}
             /\ IF sess[s] = Null THEN sess'[s] = Null ELSE Worn(sess[s], sess'[s])
  <2>1. CASE sess[s] = Null
    BY <1>1, <2>1
  <2>2. CASE sess[s] # Null
    BY <1>1, <2>2, OlderSession DEF Worn, Rows
  <2> QED BY <2>1, <2>2
<1> QED BY <1>1, <1>2 DEF AllWorn, Rows
-----------------------------------------------------------------------------
\* The ids that a request writes to.
Mentions(q) == DOMAIN q.rows \cup DOMAIN q.born \cup q.gone

\* Ids are handed out once: who is about to make a session is the only one to know it.
OwnIds ==
  /\ \A s \in Ids : sess[s] # Null => s <= used
  /\ \A w \in Threads : \A s \in Mentions(unit[w]) : s <= used
  /\ \A w \in Threads : \A s \in DOMAIN unit[w].born :
       /\ sess[s] = Null /\ s \notin DOMAIN unit[w].rows /\ s \notin unit[w].gone
       /\ \A v \in Threads : v # w => s \notin Mentions(unit[v])

\* An elevation is that of a board session,
Entitled(r) == r.elev > 0 => r.type = "user"

\* and so is one that is about to be written.
Suits(c, r) == c \in Terms /\ c.elev > 0 => r.type = "user"

Elevations ==
  /\ \A s \in Ids : sess[s] # Null => Entitled(sess[s])
  /\ \A w \in Threads : \A s \in DOMAIN unit[w].rows :
       sess[s] # Null => Suits(unit[w].rows[s], sess[s])
  /\ \A w \in Threads : \A s \in DOMAIN unit[w].born : Entitled(unit[w].born[s])

\* A login that nobody overlaps revokes sessions that are there and leaves room.
RoomLeft(q) == \A s \in DOMAIN q.born :
  Cardinality(LiveOf(q.born[s].user, q.born[s].type) \ DOMAIN q.rows) < LargestCap

Logins == \A w \in Threads : alone[w] =>
  /\ \A v \in Threads : v # w => unit[v] = Nothing
  /\ unit[w].gone = {} /\ \E s \in Ids : DOMAIN unit[w].born = {s}
  /\ \A s \in DOMAIN unit[w].rows : unit[w].rows[s] \in Marks /\ sess[s] # Null
  /\ RoomLeft(unit[w])

Order == Types /\ OwnIds /\ Elevations /\ Logins

\* A finite set of numbers that is not empty has a largest: otherwise the numbers above
\* each would be fewer and fewer for ever.
LEMMA CapsHaveLargest ==
  /\ LargestCap \in Nat /\ \A n \in Caps : n <= LargestCap
<1> DEFINE Up(x) == {y \in Caps : y >= x}
           C == {Up(x) : x \in Caps}
           R == StrictSubsetOrdering(Caps)
<1>1. Caps # {} /\ Caps \subseteq 1..ConcurrentMax
  BY SessionAssumption DEF Caps
<1>2. IsFiniteSet(Caps)
  <2>1. IsFiniteSet(1..ConcurrentMax)
    BY Bounds, FS_Interval
  <2> QED BY <1>1, <2>1, FS_Subset
<1>3. C # {} /\ C \subseteq FiniteSubsetsOf(Caps)
  <2>1. FiniteSubsetsOf(Caps) = SUBSET Caps
    BY <1>2, FS_FiniteSubsetsOfFinite
  <2>2. \A x \in Caps : Up(x) \in SUBSET Caps
    OBVIOUS
  <2>3. C \subseteq SUBSET Caps
    <3> HIDE DEF Up
    <3> QED BY <2>2
  <2>4. PICK x \in Caps : TRUE
    BY <1>1
  <2>5. Up(x) \in C
    OBVIOUS
  <2> HIDE DEF C
  <2> QED BY <2>1, <2>3, <2>5
<1>4. PICK c \in C : \A d \in C : <<d, c>> \notin R
  <2>1. IsWellFoundedOn(R, FiniteSubsetsOf(Caps))
    BY <1>2, FS_StrictSubsetOrderingWellFounded
  <2> HIDE DEF C, R
  <2> QED BY <1>3, <2>1, WFMin
<1>5. PICK x \in Caps : c = Up(x)
  <2> HIDE DEF Up
  <2> QED OBVIOUS
<1>6. \A y \in Caps : y <= x
  <2> SUFFICES ASSUME NEW y \in Caps, ~(y <= x) PROVE FALSE
    OBVIOUS
  <2>1. x \in Nat /\ y \in Nat
    BY <1>1, Bounds
  <2>2. x \in Up(x) /\ x \notin Up(y)
    BY <2>1
  <2>3. Up(y) \subseteq Up(x)
    <3>1. \A z \in Caps : z \in Nat /\ (z >= y => z >= x)
      BY <1>1, <2>1, Bounds
    <3> QED BY <3>1
  <2>4. Up(x) \in SUBSET Caps /\ Up(y) \in SUBSET Caps /\ Up(y) \in C
    OBVIOUS
  <2>5. <<Up(y), c>> \in R
    <3> HIDE DEF Up
    <3> QED BY <1>5, <2>2, <2>3, <2>4 DEF StrictSubsetOrdering
  <2> QED BY <1>4, <2>4, <2>5
<1>7. x \in Caps /\ \A p \in Policies : p["concurrent"] <= x
  BY <1>6 DEF Caps
<1>8. LargestCap \in Caps /\ \A p \in Policies : p["concurrent"] <= LargestCap
  BY <1>7 DEF LargestCap, Caps
<1> QED BY <1>1, <1>8, Bounds DEF Caps

\* There is nothing yet.
LEMMA OrderInit == SessionsInit => Order
<1> SUFFICES ASSUME SessionsInit PROVE Order
  OBVIOUS
<1>1. \A w \in Threads : /\ unit[w] = Nothing /\ alone[w] = FALSE
                          /\ DOMAIN unit[w].rows = {} /\ DOMAIN unit[w].born = {} /\ Mentions(unit[w]) = {}
  BY NothingIsWrites DEF SessionsInit, Mentions
<1>2. Types
  <2>1. /\ policy \in Policies /\ policy \in [Knobs -> Nat] /\ policy["slide"] \in 1..CapMax
        /\ policy["cap"] \in 1..CapMax /\ policy["concurrent"] \in Caps
    BY SessionAssumption DEF SessionsInit, Caps
  <2> QED BY <2>1, Bounds, NothingIsWrites DEF SessionsInit, Types, Rows
<1>3. OwnIds
  BY <1>1 DEF SessionsInit, OwnIds
<1>4. Elevations
  BY <1>1 DEF SessionsInit, Elevations
<1>5. Logins
  BY <1>1 DEF Logins
<1> QED BY <1>2, <1>3, <1>4, <1>5 DEF Order

\* Wear makes no live session.
LEMMA LiveOfShrinks ==
  ASSUME AllWorn(sess, sess'), sess \in Rows, NEW u, NEW type
  PROVE  LiveOf(u, type)' \subseteq LiveOf(u, type)
<1> SUFFICES ASSUME NEW s \in Ids, s \in LiveOf(u, type)' PROVE s \in LiveOf(u, type)
  BY DEF LiveOf
<1>1. /\ sess'[s] # Null /\ sess'[s].left > 0 /\ ~sess'[s].revoked
      /\ sess'[s].user = u /\ sess'[s].type = type
  BY DEF LiveOf, Live, Unexpired
<1>2. sess[s] # Null /\ Worn(sess[s], sess'[s])
  BY <1>1 DEF AllWorn
<1>3. sess[s].left > 0 /\ ~sess[s].revoked /\ sess[s].user = u /\ sess[s].type = type
  BY <1>1, <1>2 DEF Worn
<1> QED BY <1>2, <1>3 DEF LiveOf, Live, Unexpired

LEMMA SubsetsOfIds ==
  ASSUME NEW S \in SUBSET Ids, NEW T \in SUBSET S
  PROVE  /\ IsFiniteSet(S) /\ Cardinality(S) \in Nat /\ Cardinality(T) \in Nat
         /\ Cardinality(T) <= Cardinality(S)
<1>1. IsFiniteSet(Ids)
  BY Bounds, FS_Interval DEF Ids
<1>2. IsFiniteSet(S)
  BY <1>1, FS_Subset
<1> QED BY <1>2, FS_Subset, FS_CardinalityType

\* The requests' writes stay or age, the rows wear.
Aged(q, n) ==
  /\ n \in Writes /\ n.gone = q.gone
  /\ DOMAIN n.rows = DOMAIN q.rows /\ DOMAIN n.born = DOMAIN q.born
  /\ q = Nothing => n = Nothing
  /\ \A s \in DOMAIN q.rows : /\ q.rows[s] \in Marks => n.rows[s] \in Marks
                              /\ n.rows[s] \in Terms => /\ q.rows[s] \in Terms
                                                        /\ n.rows[s].elev > 0 => q.rows[s].elev > 0
  /\ \A s \in DOMAIN q.born : Worn(q.born[s], n.born[s])

\* What does not age, and what is kept while it does.
LEMMA SameIsAged ==
  ASSUME NEW q \in Writes
  PROVE  Aged(q, q)
  BY WritesParts DEF Aged, Worn

LEMMA WearKeeps ==
  ASSUME Order, AllWorn(sess, sess'), unit' \in [Threads -> Writes],
         \A w \in Threads : Aged(unit[w], unit'[w]),
         UNCHANGED <<used, alone>>, Types'
  PROVE  Order'
<1>0. /\ sess \in Rows /\ sess' \in Rows /\ unit \in [Threads -> Writes]
      /\ \A s \in Ids : IF sess[s] = Null THEN sess'[s] = Null
                         ELSE sess'[s] # Null /\ Worn(sess[s], sess'[s]) /\ sess[s] \in SessionRow
  <2>1. ASSUME NEW s \in Ids, sess[s] # Null
        PROVE  Worn(sess[s], sess'[s]) /\ sess'[s] # Null
    BY <2>1, SessionKeys DEF AllWorn, Worn
  <2> QED BY <2>1 DEF Order, Types, AllWorn, Rows
<1>1. \A w \in Threads : Mentions(unit'[w]) = Mentions(unit[w])
  BY DEF Aged, Mentions
<1>2. \A w \in Threads : Mentions(unit[w]) \subseteq Ids
  BY <1>0, WritesParts DEF Mentions
<1>3. OwnIds'
  <2>1. \A s \in Ids : sess'[s] # Null => s <= used'
    BY <1>0 DEF Order, OwnIds
  <2>2. \A w \in Threads : \A s \in Mentions(unit'[w]) : s <= used'
    BY <1>1 DEF Order, OwnIds
  <2>3. ASSUME NEW w \in Threads, NEW s \in DOMAIN unit'[w].born
        PROVE  /\ sess'[s] = Null /\ s \notin DOMAIN unit'[w].rows /\ s \notin unit'[w].gone
               /\ \A v \in Threads : v # w => s \notin Mentions(unit'[v])
    <3>1. s \in DOMAIN unit[w].born /\ s \in Ids
      BY <1>0, <2>3, WritesParts DEF Aged
    <3>2. /\ sess[s] = Null /\ s \notin DOMAIN unit[w].rows /\ s \notin unit[w].gone
          /\ \A v \in Threads : v # w => s \notin Mentions(unit[v])
      BY <3>1 DEF Order, OwnIds
    <3> QED BY <1>0, <1>1, <3>1, <3>2 DEF Aged
  <2>4. \A w \in Threads : \A s \in DOMAIN unit'[w].born :
          /\ sess'[s] = Null /\ s \notin DOMAIN unit'[w].rows /\ s \notin unit'[w].gone
          /\ \A v \in Threads : v # w => s \notin Mentions(unit'[v])
    BY <2>3
  <2> QED BY <2>1, <2>2, <2>4 DEF OwnIds, Mentions
<1>4. Elevations'
  <2>1. ASSUME NEW s \in Ids, sess'[s] # Null PROVE Entitled(sess'[s])
    <3>1. sess[s] # Null /\ Worn(sess[s], sess'[s]) /\ Entitled(sess[s])
      BY <1>0, <2>1 DEF Order, Elevations
    <3> QED BY <3>1 DEF Worn, Entitled
  <2>2. ASSUME NEW w \in Threads, NEW s \in DOMAIN unit'[w].rows, sess'[s] # Null
        PROVE  Suits(unit'[w].rows[s], sess'[s])
    <3>1. s \in DOMAIN unit[w].rows /\ s \in Ids
      BY <1>0, <2>2, WritesParts DEF Aged
    <3>2. sess[s] # Null /\ Worn(sess[s], sess'[s]) /\ Suits(unit[w].rows[s], sess[s])
      BY <1>0, <2>2, <3>1 DEF Order, Elevations
    <3>3. unit'[w].rows[s] \in Terms => /\ unit[w].rows[s] \in Terms
                                        /\ unit'[w].rows[s].elev > 0 => unit[w].rows[s].elev > 0
      BY <3>1 DEF Aged
    <3> QED BY <3>2, <3>3 DEF Suits, Worn
  <2>3. ASSUME NEW w \in Threads, NEW s \in DOMAIN unit'[w].born PROVE Entitled(unit'[w].born[s])
    <3>1. s \in DOMAIN unit[w].born /\ Worn(unit[w].born[s], unit'[w].born[s])
      BY <2>3 DEF Aged
    <3>2. Entitled(unit[w].born[s])
      BY <3>1 DEF Order, Elevations
    <3> QED BY <3>1, <3>2 DEF Worn, Entitled
  <2> QED BY <2>1, <2>2, <2>3 DEF Elevations
<1>5. Logins'
  <2> SUFFICES ASSUME NEW w \in Threads, alone'[w]
               PROVE  /\ \A v \in Threads : v # w => unit'[v] = Nothing
                      /\ unit'[w].gone = {} /\ \E s \in Ids : DOMAIN unit'[w].born = {s}
                      /\ \A s \in DOMAIN unit'[w].rows : unit'[w].rows[s] \in Marks /\ sess'[s] # Null
                      /\ RoomLeft(unit[w])'
    BY DEF Logins, RoomLeft
  <2>1. /\ \A v \in Threads : v # w => unit[v] = Nothing
        /\ unit[w].gone = {} /\ \E s \in Ids : DOMAIN unit[w].born = {s}
        /\ \A s \in DOMAIN unit[w].rows : unit[w].rows[s] \in Marks /\ sess[s] # Null
        /\ RoomLeft(unit[w])
    BY DEF Order, Logins
  <2>2. \A v \in Threads : v # w => unit'[v] = Nothing
    BY <2>1 DEF Aged
  <2>3. unit'[w].gone = {} /\ \E s \in Ids : DOMAIN unit'[w].born = {s}
    BY <2>1 DEF Aged
  <2>4. \A s \in DOMAIN unit'[w].rows : unit'[w].rows[s] \in Marks /\ sess'[s] # Null
    BY <1>0, <2>1, WritesParts DEF Aged
  <2>5. ASSUME NEW s \in DOMAIN unit'[w].born, NEW u, NEW t,
               u = unit'[w].born[s].user, t = unit'[w].born[s].type
        PROVE  Cardinality(LiveOf(u, t)' \ DOMAIN unit'[w].rows) < LargestCap
    <3>1. /\ s \in DOMAIN unit[w].born /\ DOMAIN unit'[w].rows = DOMAIN unit[w].rows
          /\ u = unit[w].born[s].user /\ t = unit[w].born[s].type
      BY <2>5 DEF Aged, Worn
    <3>2. Cardinality(LiveOf(u, t) \ DOMAIN unit[w].rows) < LargestCap
      BY <2>1, <3>1 DEF RoomLeft
    <3>3. LiveOf(u, t)' \subseteq LiveOf(u, t) /\ LiveOf(u, t) \subseteq Ids
      BY <1>0, LiveOfShrinks DEF LiveOf
    <3>4. /\ Cardinality(LiveOf(u, t)' \ DOMAIN unit[w].rows)
               <= Cardinality(LiveOf(u, t) \ DOMAIN unit[w].rows)
          /\ Cardinality(LiveOf(u, t)' \ DOMAIN unit[w].rows) \in Nat
          /\ Cardinality(LiveOf(u, t) \ DOMAIN unit[w].rows) \in Nat
      BY <3>3, SubsetsOfIds
    <3>5. Cardinality(LiveOf(u, t)' \ DOMAIN unit[w].rows) < LargestCap
      BY <3>2, <3>4, CapsHaveLargest
    <3> QED BY <3>1, <3>5
  <2>6. RoomLeft(unit[w])'
    BY <2>5 DEF RoomLeft, LiveOf
  <2> QED BY <2>2, <2>3, <2>4, <2>6
<1> QED BY <1>3, <1>4, <1>5 DEF Order

\* What time makes of the writes of a request.
LEMMA OlderWrites ==
  ASSUME NEW q \in Writes, NEW n,
         n = [q EXCEPT !.rows = [s \in DOMAIN q.rows |-> Older(q.rows[s])],
                       !.born = [s \in DOMAIN q.born |-> Older(q.born[s])]]
  PROVE  n \in Writes /\ Aged(q, n)
<1>1. /\ DOMAIN q.rows \in SUBSET Ids /\ DOMAIN q.born \in SUBSET Ids
      /\ \A s \in DOMAIN q.rows : q.rows[s] \in Changes
      /\ \A s \in DOMAIN q.born : q.born[s] \in SessionRow
  BY WritesParts
<1> DEFINE rows == [s \in DOMAIN q.rows |-> Older(q.rows[s])]
           born == [s \in DOMAIN q.born |-> Older(q.born[s])]
<1>2. n.rows = rows /\ n.born = born /\ n.gone = q.gone
      /\ n = [rows |-> rows, born |-> born, gone |-> q.gone]
  BY DEF Writes
<1>3. rows \in [DOMAIN q.rows -> Changes]
  BY <1>1, OlderChange
<1>4. born \in [DOMAIN q.born -> SessionRow]
  BY <1>1, OlderSession DEF Worn
<1>5. DOMAIN rows = DOMAIN q.rows /\ DOMAIN born = DOMAIN q.born
  OBVIOUS
<1>6. q = Nothing => rows = NoRows /\ born = NoRows
  BY NothingIsWrites DEF NoRows
<1>7. ASSUME NEW s \in DOMAIN q.rows
      PROVE  /\ q.rows[s] \in Marks => rows[s] \in Marks
             /\ rows[s] \in Terms =>
                  q.rows[s] \in Terms /\ (rows[s].elev > 0 => q.rows[s].elev > 0)
  <2>1. rows[s] = Older(q.rows[s]) /\ q.rows[s] \in Changes
    BY <1>1
  <2> HIDE DEF rows
  <2>2. /\ q.rows[s] \in Marks => rows[s] \in Marks
        /\ rows[s] \in Terms => q.rows[s] \in Terms
        /\ q.rows[s] \in Terms => /\ rows[s] \in Terms /\ q.rows[s].elev \in Nat
                                  /\ rows[s].elev <= q.rows[s].elev
    BY <2>1, OlderChange
  <2>3. rows[s] \in Terms => rows[s].elev \in Nat
    BY Bounds DEF Terms
  <2> QED BY <2>2, <2>3
<1>8. ASSUME NEW s \in DOMAIN q.born
      PROVE  Worn(q.born[s], born[s])
  BY <1>1, OlderSession
<1> HIDE DEF rows, born
<1>9. n \in Writes
  <2>1. q.gone \in SUBSET Ids
    BY WritesParts
  <2>2. rows \in UNION {[S -> Changes] : S \in SUBSET Ids}
    BY <1>1, <1>3
  <2>3. born \in UNION {[S -> SessionRow] : S \in SUBSET Ids}
    BY <1>1, <1>4
  <2> QED BY <1>2, <2>1, <2>2, <2>3 DEF Writes
<1>10. q = Nothing => n = Nothing
  BY <1>2, <1>6, NothingIsWrites DEF Nothing
<1> QED BY <1>2, <1>5, <1>7, <1>8, <1>9, <1>10 DEF Aged

\* Time passes.
LEMMA OrderTick ==
  ASSUME Order, Tick
  PROVE  Order' /\ AllWorn(sess, sess') /\ \A w \in Threads : Aged(unit[w], unit'[w])
<1>1. AllWorn(sess, sess') /\ sess' \in Rows
  BY TickIsWorn DEF Order, Types, AllWorn
<1>2. unit' = [w \in Threads |-> [unit[w] EXCEPT
        !.rows = [s \in DOMAIN unit[w].rows |-> Older(unit[w].rows[s])],
        !.born = [s \in DOMAIN unit[w].born |-> Older(unit[w].born[s])]]]
      /\ UNCHANGED <<used, policy, account, alone>> /\ unit \in [Threads -> Writes]
  BY DEF Tick, Order, Types
<1>3. ASSUME NEW w \in Threads
      PROVE  unit'[w] \in Writes /\ Aged(unit[w], unit'[w])
  <2>1. unit[w] \in Writes /\
        unit'[w] = [unit[w] EXCEPT
          !.rows = [s \in DOMAIN unit[w].rows |-> Older(unit[w].rows[s])],
          !.born = [s \in DOMAIN unit[w].born |-> Older(unit[w].born[s])]]
    BY <1>2
  <2> QED BY <2>1, OlderWrites
<1>4. unit' \in [Threads -> Writes]
  BY <1>2, <1>3
<1>5. Types'
  BY <1>1, <1>2, <1>4 DEF Order, Types
<1> QED BY <1>1, <1>2, <1>3, <1>4, <1>5, WearKeeps

\* A page that is seen, a sweep, a write of the policy.
LEMMA OrderLook ==
  ASSUME Order, AllWorn(sess, sess'), UNCHANGED <<used, unit, alone>>, Types'
  PROVE  Order'
<1>1. \A w \in Threads : unit[w] \in Writes
  BY DEF Order, Types
<1>2. \A w \in Threads : Aged(unit[w], unit'[w])
  BY <1>1, SameIsAged
<1> QED BY <1>2, WearKeeps DEF Types

LEMMA LookTypes ==
  ASSUME Order, AllWorn(sess, sess'), UNCHANGED <<used, unit, alone, policy, account>>
  PROVE  Types'
  BY DEF Order, Types, AllWorn

\* What a request may be about to write when it makes no session.
Fit(q) ==
  /\ q \in Writes /\ q.born = NoRows
  /\ \A s \in Mentions(q) : sess[s] # Null
  /\ \A s \in DOMAIN q.rows : Suits(q.rows[s], sess[s])

\* Such a request decides; the rows it looked at may have been touched.
LEMMA OrderDecide ==
  ASSUME Order, NEW w \in Threads, NEW q, Fit(q), Decide(w, q), AllWorn(sess, sess'),
         UNCHANGED <<used, policy, account>>
  PROVE  Order' /\ \A v \in Threads : ~alone'[v]
<1>1. /\ unit' = [unit EXCEPT ![w] = q] /\ unit \in [Threads -> Writes]
      /\ unit[w] = Nothing /\ q \in Writes /\ q.born = NoRows /\ DOMAIN q.born = {}
      /\ alone' = [v \in Threads |-> v = w /\ Busy = {} /\ q.born # NoRows]
  BY NothingIsWrites DEF Decide, Fit, Order, Types
<1>2. \A v \in Threads : ~alone'[v] /\ alone' \in [Threads -> BOOLEAN]
  BY <1>1
<1>3. \A v \in Threads : unit'[v] = IF v = w THEN q ELSE unit[v]
  BY <1>1
<1>4. /\ sess \in Rows /\ sess' \in Rows
      /\ \A s \in Ids : IF sess[s] = Null THEN sess'[s] = Null
                         ELSE sess'[s] # Null /\ Worn(sess[s], sess'[s]) /\ sess[s] \in SessionRow
  <2>1. ASSUME NEW s \in Ids, sess[s] # Null
        PROVE  Worn(sess[s], sess'[s]) /\ sess'[s] # Null
    BY <2>1, SessionKeys DEF AllWorn, Worn
  <2> QED BY <2>1 DEF Order, Types, AllWorn, Rows
<1>5. Types'
  <2>1. unit' \in [Threads -> Writes]
    BY <1>1
  <2> QED BY <1>2, <1>4, <2>1 DEF Order, Types
<1>6. /\ \A v \in Threads : Mentions(unit[v]) \subseteq Ids
      /\ \A v \in Threads : DOMAIN unit[v].rows \subseteq Ids
      /\ Mentions(q) \subseteq Ids /\ DOMAIN q.rows \subseteq Ids
  BY <1>1, WritesParts DEF Mentions
<1>7. OwnIds'
  <2>1. \A s \in Ids : sess'[s] # Null => s <= used'
    BY <1>4 DEF Order, OwnIds
  <2>2. \A s \in Mentions(q) : s <= used
    BY <1>6 DEF Fit, Order, OwnIds
  <2>3. \A v \in Threads : \A s \in Mentions(unit'[v]) : s <= used'
    BY <1>3, <2>2 DEF Order, OwnIds
  <2>4. ASSUME NEW v \in Threads, NEW s \in DOMAIN unit'[v].born
        PROVE  /\ sess'[s] = Null /\ s \notin DOMAIN unit'[v].rows /\ s \notin unit'[v].gone
               /\ \A x \in Threads : x # v => s \notin Mentions(unit'[x])
    <3>1. v # w /\ unit'[v] = unit[v] /\ s \in Ids
      BY <1>1, <1>3, <1>6, <2>4 DEF Mentions
    <3>2. /\ sess[s] = Null /\ s \notin DOMAIN unit[v].rows /\ s \notin unit[v].gone
          /\ \A x \in Threads : x # v => s \notin Mentions(unit[x])
      BY <2>4, <3>1 DEF Order, OwnIds
    <3>3. s \notin Mentions(q)
      BY <3>2 DEF Fit
    <3> QED BY <1>3, <1>4, <3>1, <3>2, <3>3
  <2>5. \A v \in Threads : \A s \in DOMAIN unit'[v].born :
          /\ sess'[s] = Null /\ s \notin DOMAIN unit'[v].rows /\ s \notin unit'[v].gone
          /\ \A x \in Threads : x # v => s \notin Mentions(unit'[x])
    BY <2>4
  <2> QED BY <2>1, <2>3, <2>5 DEF OwnIds, Mentions
<1>8. Elevations'
  <2>1. ASSUME NEW s \in Ids, sess'[s] # Null PROVE Entitled(sess'[s])
    <3>1. sess[s] # Null /\ Worn(sess[s], sess'[s]) /\ Entitled(sess[s])
      BY <1>4, <2>1 DEF Order, Elevations
    <3> QED BY <3>1 DEF Worn, Entitled
  <2>2. ASSUME NEW v \in Threads, NEW s \in DOMAIN unit'[v].rows, sess'[s] # Null
        PROVE  Suits(unit'[v].rows[s], sess'[s])
    <3>1. s \in Ids
      BY <1>3, <1>6, <2>2
    <3>2. sess[s] # Null /\ Worn(sess[s], sess'[s])
      BY <1>4, <2>2, <3>1
    <3>3. Suits(unit'[v].rows[s], sess[s])
      BY <1>3, <2>2, <3>2 DEF Fit, Order, Elevations
    <3> QED BY <3>2, <3>3 DEF Suits, Worn
  <2>3. \A v \in Threads : \A s \in DOMAIN unit'[v].born : Entitled(unit'[v].born[s])
    BY <1>1, <1>3 DEF Order, Elevations
  <2> QED BY <2>1, <2>2, <2>3 DEF Elevations
<1>9. Logins'
  BY <1>2 DEF Logins
<1> QED BY <1>2, <1>5, <1>7, <1>8, <1>9 DEF Order
-----------------------------------------------------------------------------
\* What the lookups find.
LEMMA Found ==
  ASSUME sess \in Rows, NEW b
  PROVE  /\ \A s \in _get_session_user(b) : s \in Ids /\ sess[s] # Null /\ sess[s] \in SessionRow
                                           /\ sess[s].type = "user"
         /\ \A s \in _get_elevated_su(b) : /\ s \in Ids /\ sess[s] # Null /\ sess[s] \in SessionRow
                                          /\ sess[s].type = "user" /\ sess[s].elev > 0
                                          /\ s = b.board
         /\ BySuperUser(b) \subseteq _get_session_user(b)
  BY DEF _get_session_user, _get_elevated_su, OfBoard, BySuperUser, Live, Unexpired, Rows

\* A write to one row, and the removal of one, fit.
LEMMA FitRow ==
  ASSUME Order, NEW s \in Ids, sess[s] # Null, NEW c \in Changes, Suits(c, sess[s])
  PROVE  Fit([Nothing EXCEPT !.rows = Only(s, c)])
<1> DEFINE q == [Nothing EXCEPT !.rows = Only(s, c)]
<1>1. /\ q.rows = Only(s, c) /\ q.born = NoRows /\ q.gone = {}
      /\ q = [rows |-> q.rows, born |-> q.born, gone |-> q.gone]
  BY DEF Nothing
<1>2. DOMAIN Only(s, c) = {s} /\ Only(s, c)[s] = c
  BY OnlyRange
<1>3. Only(s, c) \in UNION {[S -> Changes] : S \in SUBSET Ids}
  BY OnlyRange
<1> HIDE DEF q
<1>4. q \in Writes
  BY <1>1, <1>3, NothingIsWrites DEF Writes
<1>5. Mentions(q) = {s}
  BY <1>1, <1>2, NothingIsWrites DEF Mentions
<1>6. Fit(q)
  BY <1>1, <1>2, <1>4, <1>5 DEF Fit
<1> QED BY <1>6 DEF q

LEMMA FitGone ==
  ASSUME Order, NEW s \in Ids, sess[s] # Null
  PROVE  Fit([Nothing EXCEPT !.gone = {s}])
<1> DEFINE q == [Nothing EXCEPT !.gone = {s}]
<1>1. /\ q.rows = NoRows /\ q.born = NoRows /\ q.gone = {s}
      /\ q = [rows |-> q.rows, born |-> q.born, gone |-> q.gone]
  BY DEF Nothing
<1> HIDE DEF q
<1>2. q \in Writes
  BY <1>1, NothingIsWrites DEF Writes
<1>3. Mentions(q) = {s} /\ DOMAIN q.rows = {}
  BY <1>1, NothingIsWrites DEF Mentions
<1>4. Fit(q)
  BY <1>1, <1>2, <1>3 DEF Fit
<1> QED BY <1>4 DEF q

\* The writes that there are; only that of a term needs a board session.
LEMMA Kinds ==
  /\ [elev |-> TTL] \in Terms /\ [elev |-> 0] \in Terms /\ [revoked |-> TRUE] \in Marks
  /\ \A n \in 0..CapMax : [quiet |-> 0, left |-> n] \in Beats
  /\ \A c \in Beats \cup Marks : \A r : Suits(c, r)
  /\ \A r : Suits([elev |-> 0], r)
<1>1. /\ \A x \in Beats : DOMAIN x = {"quiet", "left"}
      /\ \A x \in Terms : DOMAIN x = {"elev"}
      /\ \A x \in Marks : DOMAIN x = {"revoked"}
  BY DEF Beats, Terms, Marks
<1>2. {"quiet", "left"} # {"elev"} /\ {"revoked"} # {"elev"}
  OBVIOUS
<1>3. \A c \in Beats \cup Marks : c \notin Terms
  BY <1>1, <1>2
<1>4. \A c \in Beats \cup Marks : \A r : Suits(c, r)
  BY <1>3 DEF Suits
<1>5. /\ [elev |-> TTL] \in Terms /\ [elev |-> 0] \in Terms /\ [revoked |-> TRUE] \in Marks
      /\ \A n \in 0..CapMax : [quiet |-> 0, left |-> n] \in Beats
  BY Bounds DEF Terms, Marks, Beats
<1>6. \A r : Suits([elev |-> 0], r)
  BY DEF Suits
<1> QED BY <1>4, <1>5, <1>6

\* The requests that make no session, one by one.
LEMMA OrderLogout ==
  ASSUME Order, NEW w \in Threads, NEW b \in Cookies, logout(w, b)
  PROVE  Order' /\ \A v \in Threads : ~alone'[v]
<1>1. b.board \in Ids /\ sess[b.board] # Null
  BY Bounds DEF logout, Cookies, Order, Types, Ids
<1>2. Fit([Nothing EXCEPT !.gone = {b.board}])
  BY <1>1, FitGone
<1>3. AllWorn(sess, sess')
  BY SameIsLooked, LookedIsWorn DEF logout, Order, Types
<1> QED BY <1>2, <1>3, OrderDecide DEF logout

LEMMA OrderHeartbeat ==
  ASSUME Order, NEW w \in Threads, NEW b, heartbeat(w, b)
  PROVE  Order' /\ \A v \in Threads : ~alone'[v]
<1>1. PICK s \in {x \in OfBoard(b) : Live(x)} :
        Decide(w, [Nothing EXCEPT !.rows = Only(s, [quiet |-> 0, left |-> slide_session_expiry(s)])])
  BY DEF heartbeat
<1>2. s \in Ids /\ sess[s] # Null /\ sess[s] \in SessionRow
  BY DEF OfBoard, Order, Types, Rows
<1>3. slide_session_expiry(s) \in 0..CapMax
  BY <1>2, Bounds, SessionKeys DEF slide_session_expiry, Lower, Order, Types
<1> DEFINE c == [quiet |-> 0, left |-> slide_session_expiry(s)]
<1>4. c \in Beats
  BY <1>3, Kinds
<1> HIDE DEF c
<1>5. c \in Changes /\ Suits(c, sess[s])
  BY <1>4, Kinds DEF Changes
<1>6. Fit([Nothing EXCEPT !.rows = Only(s, c)])
  BY <1>2, <1>5, FitRow
<1>7. AllWorn(sess, sess') /\ UNCHANGED <<used, policy, account>>
  BY SameIsLooked, LookedIsWorn DEF heartbeat, Order, Types
<1>8. Decide(w, [Nothing EXCEPT !.rows = Only(s, c)])
  BY <1>1 DEF c
<1> QED BY <1>6, <1>7, <1>8, OrderDecide

LEMMA OrderElevate ==
  ASSUME Order, NEW w \in Threads, NEW b, admin_elevate(w, b) \/ admin_unelevate(w, b)
  PROVE  Order' /\ AllWorn(sess, sess') /\ \A v \in Threads : ~alone'[v]
<1>1. PICK s \in _get_session_user(b), n \in {0, TTL} :
        Decide(w, [Nothing EXCEPT !.rows = Only(s, [elev |-> n])])
  BY Found DEF admin_elevate, admin_unelevate, Order, Types
<1>2. s \in Ids /\ sess[s] # Null /\ sess[s].type = "user"
  BY Found DEF Order, Types
<1>3. [elev |-> n] \in Changes
  BY Kinds DEF Changes
<1>4. Suits([elev |-> n], sess[s])
  BY <1>2 DEF Suits
<1>5. Fit([Nothing EXCEPT !.rows = Only(s, [elev |-> n])])
  BY <1>2, <1>3, <1>4, FitRow
<1>6. AllWorn(sess, sess') /\ UNCHANGED <<used, policy, account>>
  BY TouchedIsLooked, LookedIsWorn DEF admin_elevate, admin_unelevate, Order, Types
<1> QED BY <1>1, <1>5, <1>6, OrderDecide

LEMMA OrderPortalPage ==
  ASSUME Order, NEW w \in Threads, NEW b, portal_page(w, b)
  PROVE  Order' /\ \A v \in Threads : ~alone'[v]
<1>1. PICK s \in _get_elevated_su(b) : Decide(w, [Nothing EXCEPT !.rows = Only(s, [elev |-> TTL])])
  BY DEF portal_page
<1>2. s \in Ids /\ sess[s] # Null /\ sess[s].type = "user"
  BY Found DEF Order, Types
<1>3. [elev |-> TTL] \in Changes
  BY Kinds DEF Changes
<1>4. Suits([elev |-> TTL], sess[s])
  BY <1>2 DEF Suits
<1>5. Fit([Nothing EXCEPT !.rows = Only(s, [elev |-> TTL])])
  BY <1>2, <1>3, <1>4, FitRow
<1>6. AllWorn(sess, sess') /\ UNCHANGED <<used, policy, account>>
  BY SameIsLooked, LookedIsWorn DEF portal_page, Order, Types
<1> QED BY <1>1, <1>5, <1>6, OrderDecide

LEMMA OrderRevoke ==
  ASSUME Order, NEW w \in Threads, NEW b, NEW s \in Ids, portal_api_session_revoke(w, b, s)
  PROVE  Order' /\ AllWorn(sess, sess') /\ \A v \in Threads : ~alone'[v]
<1>1. [revoked |-> TRUE] \in Changes /\ Suits([revoked |-> TRUE], sess[s])
  BY Kinds DEF Changes
<1>2. Fit([Nothing EXCEPT !.rows = Only(s, [revoked |-> TRUE])])
  BY <1>1, FitRow DEF portal_api_session_revoke
<1>3. AllWorn(sess, sess') /\ UNCHANGED <<used, policy, account>>
  BY GateIsLooked, LookedIsWorn DEF portal_api_session_revoke, Order, Types
<1> QED BY <1>2, <1>3, OrderDecide DEF portal_api_session_revoke

\* Writes of two kinds.
LEMMA NothingBut ==
  ASSUME NEW r, NEW n, NEW g
  PROVE  /\ [Nothing EXCEPT !.gone = g, !.rows = r] = [rows |-> r, born |-> NoRows, gone |-> g]
         /\ [Nothing EXCEPT !.rows = r, !.born = n] = [rows |-> r, born |-> n, gone |-> {}]
<1> DEFINE q == [Nothing EXCEPT !.gone = g, !.rows = r]
           p == [Nothing EXCEPT !.rows = r, !.born = n]
<1>1. q.rows = r /\ q.born = NoRows /\ q.gone = g /\ q = [k \in {"rows", "born", "gone"} |-> q[k]]
  BY DEF Nothing
<1>2. p.rows = r /\ p.born = n /\ p.gone = {} /\ p = [k \in {"rows", "born", "gone"} |-> p[k]]
  BY DEF Nothing
<1> HIDE DEF p, q
<1>3. /\ q = [rows |-> q.rows, born |-> q.born, gone |-> q.gone]
      /\ p = [rows |-> p.rows, born |-> p.born, gone |-> p.gone]
  BY <1>1, <1>2
<1> QED BY <1>1, <1>2, <1>3 DEF p, q

LEMMA OrderAdminLogout ==
  ASSUME Order, NEW w \in Threads, NEW b, admin_logout(w, b)
  PROVE  Order' /\ AllWorn(sess, sess') /\ \A v \in Threads : ~alone'[v]
<1> DEFINE gone == {s \in Ids : s = b.sa /\ sess[s] # Null}
           rows == [s \in BySuperUser(b) |-> [elev |-> 0]]
           q == [rows |-> rows, born |-> NoRows, gone |-> gone]
<1>1. q.rows = rows /\ q.born = NoRows /\ q.gone = gone
  OBVIOUS
<1>2. /\ DOMAIN rows = BySuperUser(b) /\ BySuperUser(b) \in SUBSET Ids
      /\ \A s \in BySuperUser(b) : sess[s] # Null /\ rows[s] = [elev |-> 0]
  BY Found DEF Order, Types
<1>3. rows \in [BySuperUser(b) -> Changes]
  BY Kinds DEF Changes
<1>4. Decide(w, q) /\ gone \in SUBSET Ids /\ \A s \in gone : sess[s] # Null
  <2>1. [Nothing EXCEPT !.gone = gone, !.rows = rows] = q
    <3> HIDE DEF gone, rows
    <3> QED BY NothingBut
  <2>2. Decide(w, [Nothing EXCEPT !.gone = gone, !.rows = rows])
    BY DEF admin_logout
  <2> QED BY <2>1, <2>2
<1>5. AllWorn(sess, sess') /\ UNCHANGED <<used, policy, account>>
  BY TouchedIsLooked, LookedIsWorn DEF admin_logout, Order, Types
<1> HIDE DEF rows, gone
<1>6. rows \in UNION {[S -> Changes] : S \in SUBSET Ids}
  BY <1>2, <1>3
<1>7. q \in Writes
  BY <1>4, <1>6, NothingIsWrites DEF Writes
<1> HIDE DEF q
<1>8. \A s \in Mentions(q) : sess[s] # Null
  BY <1>1, <1>2, <1>4, NothingIsWrites DEF Mentions
<1>9. \A s \in DOMAIN q.rows : Suits(q.rows[s], sess[s])
  BY <1>1, <1>2, Kinds
<1>10. Fit(q)
  BY <1>1, <1>7, <1>8, <1>9 DEF Fit
<1> QED BY <1>4, <1>5, <1>10, OrderDecide

\* The room that is left once the oldest are revoked.
LEMMA RoomMade ==
  ASSUME Order, AllWorn(sess, sess'), NEW u, NEW type, NEW S, enforce_concurrent_cap(u, type, S)
  PROVE  Cardinality(LiveOf(u, type)' \ S) < LargestCap
<1>1. LiveOf(u, type)' \ S \subseteq LiveOf(u, type) \ S /\ LiveOf(u, type) \ S \subseteq Ids
  BY LiveOfShrinks DEF Order, Types, LiveOf
<1>2. /\ Cardinality(LiveOf(u, type)' \ S) <= Cardinality(LiveOf(u, type) \ S)
      /\ Cardinality(LiveOf(u, type)' \ S) \in Nat
  BY <1>1, SubsetsOfIds
<1>3. Cardinality(LiveOf(u, type)) \in Nat
  BY SubsetsOfIds DEF LiveOf
<1>4. Cardinality(LiveOf(u, type) \ S) = Lower(policy["concurrent"] - 1, Cardinality(LiveOf(u, type)))
  BY DEF enforce_concurrent_cap
<1>5. policy["concurrent"] \in 1..ConcurrentMax /\ policy["concurrent"] <= LargestCap
  BY SessionAssumption, CapsHaveLargest DEF Order, Types, Caps
<1>6. Cardinality(LiveOf(u, type) \ S) <= policy["concurrent"] - 1
  BY <1>3, <1>4, <1>5, Bounds DEF Lower
<1> QED BY <1>2, <1>3, <1>4, <1>5, <1>6, Bounds, CapsHaveLargest DEF Lower

\* A login decides, and may touch the row of another session.
LEMMA OrderBirth ==
  ASSUME Order, AllWorn(sess, sess'), NEW w \in Threads, NEW n \in Ids, n = used + 1, used' = n,
         UNCHANGED <<policy, account>>, NEW row \in SessionRow, Entitled(row), NEW S \in SUBSET Ids,
         enforce_concurrent_cap(row.user, row.type, S), NEW q \in Writes, Decide(w, q),
         q.gone = {}, DOMAIN q.born = {n}, q.born[n] = row,
         DOMAIN q.rows = S, \A s \in S : q.rows[s] \in Marks
  PROVE  Order'
<1>1. used \in Nat /\ used < n /\ n <= MaxIds
  BY Bounds DEF Order, Types, Ids
<1>2. \A s \in S : \A r : Suits(q.rows[s], r)
  BY Kinds
<1>3. \A s \in S : s \in Ids /\ sess[s] # Null /\ s <= used /\ s # n
  <2>1. \A s \in S : s \in Ids /\ sess[s] # Null
    BY DEF enforce_concurrent_cap, LiveOf, Live, Unexpired
  <2>2. \A s \in S : s <= used
    BY <2>1 DEF Order, OwnIds
  <2> QED BY <1>1, <2>1, <2>2
<1>4. Mentions(q) = S \cup {n}
  BY DEF Mentions
<1>5. /\ unit \in [Threads -> Writes] /\ unit' = [unit EXCEPT ![w] = q] /\ unit[w] = Nothing
      /\ \A v \in Threads : unit'[v] = IF v = w THEN q ELSE unit[v]
      /\ alone' = [v \in Threads |-> v = w /\ Busy = {} /\ q.born # NoRows]
  BY DEF Decide, Order, Types
<1>6. /\ sess \in Rows /\ sess' \in Rows
      /\ \A s \in Ids : IF sess[s] = Null THEN sess'[s] = Null
                          ELSE sess'[s] # Null /\ Worn(sess[s], sess'[s]) /\ sess[s] \in SessionRow
  <2>1. ASSUME NEW s \in Ids, sess[s] # Null
        PROVE  Worn(sess[s], sess'[s]) /\ sess'[s] # Null
    BY <2>1, SessionKeys DEF AllWorn, Worn
  <2> QED BY <2>1 DEF Order, Types, AllWorn, Rows
<1>7. Types'
  <2>1. unit' \in [Threads -> Writes] /\ alone' \in [Threads -> BOOLEAN]
    BY <1>5
  <2>2. used' \in 0..MaxIds
    BY <1>1, Bounds
  <2> QED BY <1>1, <1>6, <2>1, <2>2 DEF Order, Types
<1>8. /\ \A v \in Threads : Mentions(unit[v]) \subseteq Ids
      /\ \A v \in Threads : DOMAIN unit[v].rows \subseteq Ids
      /\ \A v \in Threads : \A s \in Mentions(unit[v]) : s \in Nat /\ s <= used /\ s # n
  <2>1. /\ \A v \in Threads : Mentions(unit[v]) \subseteq Ids
        /\ \A v \in Threads : DOMAIN unit[v].rows \subseteq Ids
    BY <1>5, WritesParts DEF Mentions
  <2>2. \A v \in Threads : \A s \in Mentions(unit[v]) : s \in Nat /\ s <= used
    BY <2>1, Bounds DEF Order, OwnIds, Ids
  <2> QED BY <1>1, <2>1, <2>2
<1>9. OwnIds'
  <2>1. \A s \in Ids : sess'[s] # Null => s <= used'
    BY <1>1, <1>6, Bounds DEF Order, OwnIds, Ids
  <2>2. \A v \in Threads : \A s \in Mentions(unit'[v]) : s <= used'
    <3>1. \A s \in Mentions(q) : s <= used'
      BY <1>1, <1>3, <1>4, Bounds DEF Ids
    <3>2. \A v \in Threads : \A s \in Mentions(unit[v]) : s <= used'
      BY <1>1, <1>8, Bounds
    <3> QED BY <1>5, <3>1, <3>2
  <2>3. ASSUME NEW v \in Threads, NEW s \in DOMAIN unit'[v].born
        PROVE  /\ sess'[s] = Null /\ s \notin DOMAIN unit'[v].rows /\ s \notin unit'[v].gone
               /\ \A x \in Threads : x # v => s \notin Mentions(unit'[x])
    <3>1. CASE v = w
      <4>1. s = n /\ unit'[v] = q
        BY <1>5, <2>3, <3>1
      <4>2. sess[n] = Null
        BY <1>1 DEF Order, OwnIds
      <4>3. n \notin S
        BY <1>3
      <4> QED BY <1>1, <1>2, <1>5, <1>6, <1>8, <3>1, <4>1, <4>2, <4>3
    <3>2. CASE v # w
      <4>1. unit'[v] = unit[v] /\ s \in Mentions(unit[v]) /\ s \in Ids
        BY <1>5, <1>8, <2>3, <3>2 DEF Mentions
      <4>2. /\ sess[s] = Null /\ s \notin DOMAIN unit[v].rows /\ s \notin unit[v].gone
            /\ \A x \in Threads : x # v => s \notin Mentions(unit[x])
        BY <2>3, <4>1 DEF Order, OwnIds
      <4>3. s \notin Mentions(q)
        BY <1>3, <1>4, <1>8, <4>1, <4>2
      <4> QED BY <1>5, <1>6, <4>1, <4>2, <4>3
    <3> QED BY <3>1, <3>2
  <2>4. \A v \in Threads : \A s \in DOMAIN unit'[v].born :
          /\ sess'[s] = Null /\ s \notin DOMAIN unit'[v].rows /\ s \notin unit'[v].gone
          /\ \A x \in Threads : x # v => s \notin Mentions(unit'[x])
    BY <2>3
  <2> QED BY <2>1, <2>2, <2>4 DEF OwnIds, Mentions
<1>10. Elevations'
  <2>1. ASSUME NEW s \in Ids, sess'[s] # Null PROVE Entitled(sess'[s])
    <3>1. sess[s] # Null /\ Worn(sess[s], sess'[s]) /\ Entitled(sess[s])
      BY <1>6, <2>1 DEF Order, Elevations
    <3> QED BY <3>1 DEF Worn, Entitled
  <2>2. ASSUME NEW v \in Threads, NEW s \in DOMAIN unit'[v].rows, sess'[s] # Null
        PROVE  Suits(unit'[v].rows[s], sess'[s])
    <3>1. CASE v = w
      BY <1>2, <1>5, <2>2, <3>1
    <3>2. CASE v # w
      <4>1. s \in Ids /\ unit'[v] = unit[v] /\ s \in DOMAIN unit[v].rows
        BY <1>5, <1>8, <2>2, <3>2
      <4>2. sess[s] # Null /\ Worn(sess[s], sess'[s]) /\ Suits(unit[v].rows[s], sess[s])
        BY <1>6, <2>2, <4>1 DEF Order, Elevations
      <4> QED BY <4>1, <4>2 DEF Suits, Worn
    <3> QED BY <3>1, <3>2
  <2>3. \A v \in Threads : \A s \in DOMAIN unit'[v].born : Entitled(unit'[v].born[s])
    BY <1>5 DEF Order, Elevations
  <2> QED BY <2>1, <2>2, <2>3 DEF Elevations
<1>11. Logins'
  <2> SUFFICES ASSUME NEW v \in Threads, alone'[v]
               PROVE  /\ \A x \in Threads : x # v => unit'[x] = Nothing
                      /\ unit'[v].gone = {} /\ \E s \in Ids : DOMAIN unit'[v].born = {s}
                      /\ \A s \in DOMAIN unit'[v].rows : unit'[v].rows[s] \in Marks /\ sess'[s] # Null
                      /\ RoomLeft(unit[v])'
    BY DEF Logins, RoomLeft
  <2>1. v = w /\ Busy = {} /\ unit'[v] = q
    BY <1>5
  <2>2. \A x \in Threads : x # v => unit'[x] = Nothing
    BY <1>5, <2>1 DEF Busy
  <2>3. \A s \in DOMAIN q.rows : q.rows[s] \in Marks /\ sess'[s] # Null
    BY <1>2, <1>3, <1>6
  <2>4. Cardinality(LiveOf(row.user, row.type)' \ S) < LargestCap
    BY RoomMade
  <2>5. ASSUME NEW s \in DOMAIN unit'[v].born, NEW x, NEW t,
               x = unit'[v].born[s].user, t = unit'[v].born[s].type
        PROVE  Cardinality(LiveOf(x, t)' \ DOMAIN unit'[v].rows) < LargestCap
    <3>1. unit'[v].born[s] = row /\ DOMAIN unit'[v].rows = S
      BY <2>1, <2>5
    <3> QED BY <2>4, <2>5, <3>1
  <2>6. RoomLeft(unit[v])'
    BY <2>5 DEF RoomLeft, LiveOf
  <2> QED BY <1>1, <2>1, <2>2, <2>3, <2>6
<1> QED BY <1>7, <1>9, <1>10, <1>11 DEF Order

\* What a login writes.
LEMMA OrderCreates ==
  ASSUME Order, NEW w \in Threads, NEW u \in Users \cup {SA}, NEW type \in {"user", "sa"},
         NEW lasts \in 0..CapMax, _create_session(w, u, type, lasts), AllWorn(sess, sess')
  PROVE  Order'
<1>1. PICK n \in Ids : n = used + 1 /\ used' = n
  BY Bounds DEF _create_session, Order, Types, Ids
<1> DEFINE row == [user |-> u, type |-> type, age |-> 0, left |-> lasts,
                   elev |-> 0, quiet |-> Null, revoked |-> FALSE]
<1>2. /\ row \in SessionRow /\ row.user = u /\ row.type = type /\ Entitled(row)
  BY Bounds DEF SessionRow, Entitled
<1>3. PICK S \in SUBSET Ids :
        /\ enforce_concurrent_cap(u, type, S)
        /\ Decide(w, [Nothing EXCEPT !.rows = [x \in S |-> [revoked |-> TRUE]], !.born = Only(n, row)])
  BY <1>1 DEF _create_session
<1> DEFINE rows == [x \in S |-> [revoked |-> TRUE]]
           born == Only(n, row)
           q == [rows |-> rows, born |-> born, gone |-> {}]
<1>4. Decide(w, q)
  <2>1. Decide(w, [Nothing EXCEPT !.rows = rows, !.born = born])
    BY <1>3
  <2> HIDE DEF rows, born
  <2>2. [Nothing EXCEPT !.rows = rows, !.born = born] = q
    BY NothingBut
  <2> QED BY <2>1, <2>2
<1>5. DOMAIN rows = S /\ rows \in [S -> Changes] /\ \A s \in S : rows[s] \in Marks
  BY Kinds DEF Changes
<1> HIDE DEF row
<1>6. /\ DOMAIN born = {n} /\ born[n] = row
      /\ born \in UNION {[X -> SessionRow] : X \in SUBSET Ids}
  BY <1>2, OnlyRange
<1> HIDE DEF rows, born
<1>7. q \in Writes /\ q.rows = rows /\ q.born = born /\ q.gone = {}
  <2>1. rows \in UNION {[X -> Changes] : X \in SUBSET Ids}
    BY <1>5
  <2> QED BY <1>6, <2>1 DEF Writes
<1> HIDE DEF q
<1>8. UNCHANGED <<policy, account>>
  BY DEF _create_session
<1> QED BY <1>1, <1>2, <1>3, <1>4, <1>5, <1>6, <1>7, <1>8, OrderBirth

\* The two logins.
LEMMA OrderLogin ==
  ASSUME Order, NEW w \in Threads, NEW u \in Users, login_submit(w, u)
  PROVE  Order' /\ AllWorn(sess, sess')
<1>1. PICK lasts \in 0..CapMax : lasts = policy["slide"]
  BY Bounds DEF Order, Types
<1>2. _create_session(w, u, "user", lasts)
  BY <1>1 DEF login_submit
<1>3. AllWorn(sess, sess')
  BY SameIsLooked, LookedIsWorn DEF login_submit, Order, Types
<1> QED BY <1>2, <1>3, OrderCreates

LEMMA OrderAdminLogin ==
  ASSUME Order, NEW w \in Threads, NEW b, admin_login(w, b)
  PROVE  Order' /\ AllWorn(sess, sess')
<1>1. _create_session(w, SA, "sa", TTL) /\ TTL \in 0..CapMax
  BY Bounds DEF admin_login, _create_sa_session
<1>2. AllWorn(sess, sess')
  BY TouchedIsLooked, LookedIsWorn DEF admin_login, Order, Types
<1> QED BY <1>1, <1>2, OrderCreates
-----------------------------------------------------------------------------
\* What any write keeps of a row.
LEMMA OverAny ==
  ASSUME NEW r \in SessionRow, NEW c \in Changes
  PROVE  /\ Over(c, r) \in SessionRow /\ Over(c, r).user = r.user /\ Over(c, r).type = r.type
         /\ r.revoked => Over(c, r).revoked
         /\ Over(c, r).elev > 0 => r.elev > 0 \/ (c \in Terms /\ c.elev > 0)
<1>1. CASE c \in Beats
  BY <1>1, OverBeat
<1>2. CASE c \in Terms
  BY <1>2, OverTerm
<1>3. CASE c \in Marks
  BY <1>3, OverMark
<1> QED BY <1>1, <1>2, <1>3 DEF Changes

\* What a commit may do to a row.
LEMMA CommitLeaves ==
  ASSUME Order, NEW w \in Threads, Commit(w), NEW s \in Ids
  PROVE  /\ unit[w] \in Writes
         /\ \/ sess'[s] = sess[s]
            \/ sess'[s] = Null
            \/ /\ s \in DOMAIN unit[w].born /\ sess[s] = Null
               /\ sess'[s] = unit[w].born[s] /\ unit[w].born[s] \in SessionRow
            \/ /\ s \in DOMAIN unit[w].rows /\ sess[s] # Null /\ sess[s] \in SessionRow
               /\ unit[w].rows[s] \in Changes /\ sess'[s] = Over(unit[w].rows[s], sess[s])
<1> DEFINE q == unit[w]
<1>1. q \in Writes /\ sess \in Rows
  BY DEF Order, Types
<1>2. /\ s \in DOMAIN q.born => sess[s] = Null /\ q.born[s] \in SessionRow
      /\ s \in DOMAIN q.rows => q.rows[s] \in Changes
  BY <1>1, WritesParts DEF Order, OwnIds
<1>3. CASE \A x \in DOMAIN q.rows : sess[x] # Null
  <2>1. sess'[s] = IF s \in DOMAIN q.born THEN q.born[s]
                   ELSE IF s \in q.gone THEN Null
                   ELSE IF s \in DOMAIN q.rows THEN Over(q.rows[s], sess[s])
                   ELSE sess[s]
    BY <1>3 DEF Commit
  <2> HIDE DEF q
  <2> QED BY <1>1, <1>2, <1>3, <2>1 DEF q, Rows
<1>4. CASE ~ \A x \in DOMAIN q.rows : sess[x] # Null
  BY <1>1, <1>4 DEF Commit
<1> QED BY <1>3, <1>4

\* A commit keeps the order, and no row forgets that it was revoked.
LEMMA OrderCommit ==
  ASSUME Order, NEW w \in Threads, Commit(w)
  PROVE  Order' /\ \A s \in Ids : sess[s] # Null /\ sess'[s] # Null /\ sess[s].revoked => sess'[s].revoked
<1> DEFINE q == unit[w]
<1>1. /\ unit \in [Threads -> Writes] /\ sess \in Rows /\ q \in Writes
      /\ \A v \in Threads : unit'[v] = IF v = w THEN Nothing ELSE unit[v]
      /\ \A v \in Threads : alone'[v] = IF v = w THEN FALSE ELSE alone[v]
      /\ unit' = [unit EXCEPT ![w] = Nothing] /\ alone' = [alone EXCEPT ![w] = FALSE]
      /\ alone \in [Threads -> BOOLEAN] /\ UNCHANGED <<used, policy, account>> /\ q # Nothing
  BY DEF Commit, Order, Types
<1>2. /\ \A v \in Threads : Mentions(unit[v]) \subseteq Ids /\ DOMAIN unit[v].rows \subseteq Ids
      /\ Mentions(Nothing) = {} /\ DOMAIN Nothing.rows = {} /\ DOMAIN Nothing.born = {}
  BY <1>1, WritesParts, NothingIsWrites DEF Mentions
<1>3. ASSUME NEW s \in Ids
      PROVE  /\ sess'[s] \in SessionRow \cup {Null}
             /\ sess'[s] # Null => \/ s \in DOMAIN q.born /\ sess[s] = Null /\ sess'[s] = q.born[s]
                                   \/ sess[s] # Null /\ sess'[s].user = sess[s].user
                                                     /\ sess'[s].type = sess[s].type
             /\ sess[s] # Null /\ sess'[s] # Null /\ sess[s].revoked => sess'[s].revoked
             /\ sess'[s] # Null => Entitled(sess'[s])
             /\ sess[s] = Null /\ s \notin DOMAIN q.born => sess'[s] = Null
  <2>1. CASE sess'[s] = sess[s] \/ sess'[s] = Null
    BY <1>1, <2>1 DEF Rows, Order, Elevations
  <2>2. CASE /\ s \in DOMAIN q.born /\ sess[s] = Null
             /\ sess'[s] = q.born[s] /\ q.born[s] \in SessionRow
    BY <1>1, <2>2 DEF Order, Elevations
  <2>3. CASE /\ s \in DOMAIN q.rows /\ sess[s] # Null /\ sess[s] \in SessionRow
             /\ q.rows[s] \in Changes /\ sess'[s] = Over(q.rows[s], sess[s])
    <3>1. Entitled(sess[s]) /\ Suits(q.rows[s], sess[s])
      BY <2>3 DEF Order, Elevations
    <3>2. /\ sess'[s] \in SessionRow /\ sess'[s].user = sess[s].user /\ sess'[s].type = sess[s].type
          /\ sess[s].revoked => sess'[s].revoked
          /\ sess'[s].elev > 0 => sess[s].elev > 0 \/ (q.rows[s] \in Terms /\ q.rows[s].elev > 0)
      BY <2>3, OverAny
    <3>3. Entitled(sess'[s])
      BY <3>1, <3>2 DEF Entitled, Suits
    <3> QED BY <2>3, <3>2, <3>3
  <2> QED BY <2>1, <2>2, <2>3, CommitLeaves
<1>4. sess' \in Rows
  <2>1. sess' = [s \in Ids |-> sess'[s]]
    BY <1>1 DEF Commit, Rows
  <2> QED BY <1>3, <2>1 DEF Rows
<1>5. Types'
  <2>1. unit' \in [Threads -> Writes] /\ alone' \in [Threads -> BOOLEAN]
    BY <1>1, NothingIsWrites
  <2> QED BY <1>1, <1>4, <2>1 DEF Order, Types
<1>6. \A s \in Mentions(q) : s <= used
  BY DEF Order, OwnIds
<1>7. OwnIds'
  <2>1. ASSUME NEW s \in Ids, sess'[s] # Null PROVE s <= used
    <3>1. CASE sess[s] # Null
      BY <3>1 DEF Order, OwnIds
    <3>2. CASE s \in DOMAIN q.born
      BY <1>6, <3>2 DEF Mentions
    <3> QED BY <1>3, <2>1, <3>1, <3>2
  <2>2. \A v \in Threads : \A s \in Mentions(unit'[v]) : s <= used'
    BY <1>1, <1>2 DEF Order, OwnIds
  <2>3. ASSUME NEW v \in Threads, NEW s \in DOMAIN unit'[v].born
        PROVE  /\ sess'[s] = Null /\ s \notin DOMAIN unit'[v].rows /\ s \notin unit'[v].gone
               /\ \A x \in Threads : x # v => s \notin Mentions(unit'[x])
    <3>1. v # w /\ unit'[v] = unit[v] /\ s \in Mentions(unit[v]) /\ s \in Ids
      BY <1>1, <1>2, <2>3 DEF Mentions
    <3>2. /\ sess[s] = Null /\ s \notin DOMAIN unit[v].rows /\ s \notin unit[v].gone
          /\ \A x \in Threads : x # v => s \notin Mentions(unit[x])
      BY <2>3, <3>1 DEF Order, OwnIds
    <3>3. s \notin DOMAIN q.born
      BY <3>1, <3>2 DEF Mentions
    <3> QED BY <1>1, <1>2, <1>3, <3>1, <3>2, <3>3
  <2>4. \A v \in Threads : \A s \in DOMAIN unit'[v].born :
          /\ sess'[s] = Null /\ s \notin DOMAIN unit'[v].rows /\ s \notin unit'[v].gone
          /\ \A x \in Threads : x # v => s \notin Mentions(unit'[x])
    BY <2>3
  <2> QED BY <1>1, <2>1, <2>2, <2>4 DEF OwnIds, Mentions
<1>8. Elevations'
  <2>1. \A s \in Ids : sess'[s] # Null => Entitled(sess'[s])
    BY <1>3
  <2>2. ASSUME NEW v \in Threads, NEW s \in DOMAIN unit'[v].rows, sess'[s] # Null
        PROVE  Suits(unit'[v].rows[s], sess'[s])
    <3>1. v # w /\ unit'[v] = unit[v] /\ s \in Ids /\ s \in DOMAIN unit[v].rows
      BY <1>1, <1>2, <2>2
    <3>2. s \notin DOMAIN q.born
      BY <3>1 DEF Order, OwnIds, Mentions
    <3>3. /\ sess[s] # Null /\ sess'[s].user = sess[s].user /\ sess'[s].type = sess[s].type
          /\ Suits(unit[v].rows[s], sess[s])
      BY <1>3, <2>2, <3>1, <3>2 DEF Order, Elevations
    <3> QED BY <3>1, <3>3 DEF Suits
  <2>3. \A v \in Threads : \A s \in DOMAIN unit'[v].born : Entitled(unit'[v].born[s])
    BY <1>1, <1>2 DEF Order, Elevations
  <2> QED BY <2>1, <2>2, <2>3 DEF Elevations, Entitled
<1>9. Logins'
  <2>1. \A v \in Threads : ~alone'[v]
    BY <1>1 DEF Order, Logins
  <2> QED BY <2>1 DEF Logins
<1> QED BY <1>3, <1>5, <1>7, <1>8, <1>9 DEF Order
-----------------------------------------------------------------------------
\* Every step is a commit, or leaves every request's writes, and no row gains anything.
LEMMA OrderStep ==
  ASSUME Order, [SessionsNext]_sessionVars
  PROVE  /\ Order'
         /\ \/ \E w \in Threads : Commit(w)
            \/ AllWorn(sess, sess') /\ \A w \in Threads : alone[w] => unit'[w] # Nothing
<1>0. /\ sess \in Rows /\ unit \in [Threads -> Writes]
      /\ \A w \in Threads : alone[w] => unit[w] # Nothing
  <2>1. ASSUME NEW w \in Threads, alone[w] PROVE unit[w] # Nothing
    <3>1. PICK s \in Ids : DOMAIN unit[w].born = {s}
      BY <2>1 DEF Order, Logins
    <3> QED BY <3>1, NothingIsWrites
  <2> QED BY <2>1 DEF Order, Types
<1>1. \A w \in Threads : \A q : Decide(w, q) => \A v \in Threads : alone[v] => unit'[v] # Nothing
  BY <1>0 DEF Decide
<1>2. CASE UNCHANGED sessionVars
  BY <1>0, <1>2, SameIsLooked, LookedIsWorn, OrderLook, LookTypes DEF sessionVars
<1>3. CASE Tick
  <2>1. Order' /\ AllWorn(sess, sess') /\ \A w \in Threads : Aged(unit[w], unit'[w])
    BY <1>3, OrderTick
  <2>2. ASSUME NEW w \in Threads, alone[w] PROVE unit'[w] # Nothing
    BY <2>1, <2>2, NothingIsWrites DEF Order, Logins, Aged
  <2> QED BY <2>1, <2>2
<1>4. ASSUME NEW p \in Policies, NEW key \in Knobs, portal_api_policy_set(p, key)
      PROVE  Order' /\ AllWorn(sess, sess') /\ UNCHANGED <<unit, alone>>
  <2>1. /\ p \in [Knobs -> Nat] /\ p["slide"] \in 1..CapMax /\ p["cap"] \in 1..CapMax
        /\ p["concurrent"] \in Caps
    BY SessionAssumption DEF Caps
  <2>2. policy' = [policy EXCEPT ![key] = p[key]] /\ UNCHANGED <<sess, used, account, unit, alone>>
    BY <1>4 DEF portal_api_policy_set
  <2>3. /\ policy' \in [Knobs -> Nat] /\ policy'["slide"] \in 1..CapMax /\ policy'["cap"] \in 1..CapMax
        /\ policy'["concurrent"] \in Caps
    BY <2>1, <2>2 DEF Order, Types, Knobs
  <2>4. Types'
    BY <2>2, <2>3 DEF Order, Types
  <2>5. AllWorn(sess, sess')
    BY <1>0, <2>2, SameIsLooked, LookedIsWorn
  <2> QED BY <2>2, <2>4, <2>5, OrderLook
<1>5. ASSUME NEW w \in Threads, Commit(w)
      PROVE  Order'
  BY <1>5, OrderCommit
<1>6. ASSUME NEW w \in Threads, NEW u \in Users, login_submit(w, u)
      PROVE  Order' /\ AllWorn(sess, sess') /\ \E q : Decide(w, q)
  BY <1>6, OrderLogin DEF login_submit, _create_session
<1>7. ASSUME NEW b \in Cookies, visit(b) \/ sweep_stale_sessions(b)
      PROVE  Order' /\ AllWorn(sess, sess') /\ UNCHANGED <<unit, alone>>
  <2>1. AllWorn(sess, sess')
    BY <1>0, <1>7, TouchedIsLooked, GateIsLooked, SweptIsLooked, LookedIsWorn
    DEF visit, sweep_stale_sessions
  <2> QED BY <1>7, <2>1, OrderLook, LookTypes DEF visit, sweep_stale_sessions
<1>8. ASSUME NEW b \in Cookies, NEW w \in Threads,
             \/ logout(w, b) \/ heartbeat(w, b) \/ portal_page(w, b)
             \/ admin_login(w, b) \/ admin_elevate(w, b) \/ admin_unelevate(w, b) \/ admin_logout(w, b)
             \/ \E s \in Ids : portal_api_session_revoke(w, b, s)
      PROVE  Order' /\ AllWorn(sess, sess') /\ \E q : Decide(w, q)
  <2>1. AllWorn(sess, sess)
    BY <1>0, SameIsLooked, LookedIsWorn
  <2>2. CASE logout(w, b)
    BY <2>1, <2>2, OrderLogout DEF logout
  <2>3. CASE heartbeat(w, b)
    BY <2>1, <2>3, OrderHeartbeat DEF heartbeat
  <2>4. CASE portal_page(w, b)
    BY <2>1, <2>4, OrderPortalPage DEF portal_page
  <2>5. CASE admin_login(w, b)
    BY <2>5, OrderAdminLogin DEF admin_login, _create_sa_session, _create_session
  <2>6. CASE admin_elevate(w, b)
    BY <2>6, OrderElevate DEF admin_elevate
  <2>7. CASE admin_unelevate(w, b)
    BY <2>7, OrderElevate DEF admin_unelevate
  <2>8. CASE admin_logout(w, b)
    BY <2>8, OrderAdminLogout DEF admin_logout
  <2>9. CASE \E s \in Ids : portal_api_session_revoke(w, b, s)
    BY <2>9, OrderRevoke DEF portal_api_session_revoke
  <2> QED BY <1>8, <2>2, <2>3, <2>4, <2>5, <2>6, <2>7, <2>8, <2>9
<1>9. ASSUME NEW b \in Cookies, NEW u \in Users, NEW new \in Account, ChangeAccount(b, u, new)
      PROVE  Order' /\ AllWorn(sess, sess') /\ UNCHANGED <<unit, alone>>
  <2>1. AllWorn(sess, sess') /\ sess' \in Rows
    BY <1>0, <1>9, GateIsLooked, LookedIsWorn DEF ChangeAccount, AllWorn
  <2>2. account' = [account EXCEPT ![u] = new] /\ UNCHANGED <<used, policy, unit, alone>>
    BY <1>9 DEF ChangeAccount
  <2>3. account' \in [Users \cup {SA} -> Account]
    BY <2>2 DEF Order, Types
  <2>4. Types'
    BY <2>1, <2>2, <2>3 DEF Order, Types
  <2> QED BY <2>1, <2>2, <2>4, OrderLook
<1>10. ASSUME NEW b \in Cookies, NEW u \in Users,
              \/ Disable(b, u) \/ Enable(b, u)
              \/ \E r \in Roles : change_user_role(b, u, r)
       PROVE  Order' /\ AllWorn(sess, sess') /\ UNCHANGED <<unit, alone>>
  <2>1. account[u] \in Account
    BY DEF Order, Types
  <2>2. /\ \A x \in BOOLEAN : [account[u] EXCEPT !.active = x] \in Account
        /\ \A r \in Roles : [account[u] EXCEPT !.role = r] \in Account
    BY <2>1 DEF Account
  <2>3. \E new \in Account : ChangeAccount(b, u, new)
    BY <1>10, <2>2 DEF Disable, Enable, change_user_role
  <2> QED BY <1>9, <2>3
<1> QED BY <1>0, <1>1, <1>2, <1>3, <1>4, <1>5, <1>6, <1>7, <1>8, <1>10 DEF SessionsNext

(* Nobody but the request that hands out an id knows it before its commit, only
   board sessions are or get elevated, and a login that no request
   overlaps leaves room for itself: that always holds of what is stored and of what
   any request is about to write. *)
THEOREM Ordered == SessionsSpec => []Order
<1>1. Order /\ [SessionsNext]_sessionVars => Order'
  BY OrderStep
<1> QED BY <1>1, OrderInit, PTL DEF SessionsSpec

(* Every variable of Sessions has its type, whoever writes what and when: no row has
   more time left, or a longer elevation, than the policy and the code can give. *)
THEOREM SessionTypes == SessionsSpec => []SessionsTypeOK
<1>1. Order => SessionsTypeOK
  BY DEF Order, Types, SessionsTypeOK, Rows
<1> QED BY <1>1, Ordered, PTL

\* The commit of such a login: what it found is there still, so it does not fail, what it
\* revokes is revoked, and what is left is one less than the cap.
LEMMA MakesRoom ==
  ASSUME Order, [SessionsNext]_sessionVars, NEW w \in Threads, unit'[w] = Nothing, alone[w],
         NEW row \in {unit[w].born[s] : s \in DOMAIN unit[w].born}
  PROVE  Cardinality(LiveOf(row.user, row.type)') <= LargestCap
<1>1. /\ \A v \in Threads : v # w => unit[v] = Nothing
      /\ unit[w].gone = {} /\ unit[w] \in Writes
      /\ \A s \in DOMAIN unit[w].rows : unit[w].rows[s] \in Marks /\ sess[s] # Null
      /\ RoomLeft(unit[w]) /\ sess \in Rows
  BY DEF Order, Logins, Types
<1>2. Commit(w)
  BY <1>1, OrderStep DEF Commit
<1>3. PICK n \in Ids : DOMAIN unit[w].born = {n} /\ row = unit[w].born[n]
  BY DEF Order, Logins
<1> DEFINE rows == unit[w].rows
           old == LiveOf(row.user, row.type) \ DOMAIN rows
<1>4. Cardinality(old) < LargestCap
  BY <1>1, <1>3 DEF RoomLeft
<1>5. sess' = [s \in Ids |-> IF s \in DOMAIN unit[w].born THEN unit[w].born[s]
                             ELSE IF s \in unit[w].gone THEN Null
                             ELSE IF s \in DOMAIN rows THEN Over(rows[s], sess[s])
                             ELSE sess[s]]
  BY <1>1, <1>2 DEF Commit
<1>6. LiveOf(row.user, row.type)' \subseteq old \cup {n}
  <2> SUFFICES ASSUME NEW s \in Ids, s \in LiveOf(row.user, row.type)', s # n
               PROVE  s \in old
    BY DEF LiveOf
  <2>1. sess'[s] = IF s \in DOMAIN rows THEN Over(rows[s], sess[s]) ELSE sess[s]
    BY <1>1, <1>3, <1>5
  <2>2. s \in DOMAIN rows => Over(rows[s], sess[s]).revoked
    BY <1>1, OverMark DEF Rows
  <2>3. ~sess'[s].revoked
    BY DEF LiveOf, Live
  <2>4. s \notin DOMAIN rows /\ sess'[s] = sess[s]
    BY <2>1, <2>2, <2>3
  <2> QED BY <2>4 DEF LiveOf, Live, Unexpired
<1>7. old \subseteq Ids /\ IsFiniteSet(old) /\ Cardinality(old) \in Nat
  BY SubsetsOfIds DEF LiveOf
<1> HIDE DEF old
<1>8. Cardinality(old \cup {n}) <= Cardinality(old) + 1 /\ Cardinality(old \cup {n}) \in Nat
  <2>1. Cardinality(old \cup {n}) = IF n \in old THEN Cardinality(old) ELSE Cardinality(old) + 1
    BY <1>7, FS_AddElement
  <2> QED BY <1>7, <2>1
<1>9. LiveOf(row.user, row.type)' \subseteq old \cup {n} /\ old \cup {n} \subseteq Ids
  BY <1>3, <1>6, <1>7
<1>10. /\ Cardinality(LiveOf(row.user, row.type)') <= Cardinality(old \cup {n})
       /\ Cardinality(LiveOf(row.user, row.type)') \in Nat
  BY <1>9, SubsetsOfIds
<1> QED BY <1>4, <1>7, <1>8, <1>10, CapsHaveLargest

(* A login that no other request overlaps leaves at most the concurrent cap of live
   sessions of its kind, whatever policies operators switch between. *)
THEOREM LoginsMakeRoom == SessionsSpec => LoginMakesRoom
<1>1. ASSUME Order, [SessionsNext]_sessionVars
      PROVE  [\A w \in Threads : (unit'[w] = Nothing /\ alone[w]) =>
                \A row \in {unit[w].born[s] : s \in DOMAIN unit[w].born} :
                  Cardinality(LiveOf(row.user, row.type)') <= LargestCap]_sessionVars
  BY <1>1, MakesRoom
<1> QED BY <1>1, Ordered, PTL DEF SessionsSpec, LoginMakesRoom
-----------------------------------------------------------------------------
\* The page of an operator who passes the gate, row by row.
LEMMA ListIsSo ==
  ASSUME Order, NEW b \in Cookies, Passes(b)
  PROVE  ShownIsSo(b)
<1> DEFINE f == Swept(AfterGate(b))
           list == _build_sessions_payload(b)
<1>1. AllLooked(sess, f) /\ sess \in Rows
  BY GateIsLooked, SweptIsLooked DEF Order, Types
<1>2. /\ DOMAIN list = {x \in Ids : f[x] # Null /\ (f[x].left > 0 \/ f[x].revoked)}
      /\ \A s \in DOMAIN list : list[s] = _serialize_session(f[s])
  BY DEF _build_sessions_payload
<1> HIDE DEF f
<1>3. ASSUME NEW s \in DOMAIN list
      PROVE  /\ s \in Ids /\ f[s] # Null /\ sess[s] # Null /\ sess[s] \in SessionRow
             /\ Looked(sess[s], f[s])
             /\ list[s].state = derive_session_state(f[s]) /\ list[s].session_type = f[s].type
             /\ list[s].elevated = (f[s].elev > 0)
  <2>1. s \in Ids /\ f[s] # Null /\ list[s] = _serialize_session(f[s])
    BY <1>2
  <2>2. sess[s] # Null /\ sess[s] \in SessionRow /\ Looked(sess[s], f[s])
    BY <1>1, <2>1 DEF AllLooked, Rows
  <2> HIDE DEF list
  <2> QED BY <2>1, <2>2 DEF _serialize_session
<1> HIDE DEF list
<1>4. ASSUME NEW s \in DOMAIN list, list[s].state \in {"active", "away", "idle"}
      PROVE  /\ Live(s)
             /\ list[s].session_type = "user" /\ Active(s)
                  => s \in _get_session_user([board |-> s, sa |-> Null])
             /\ list[s].elevated /\ IsA(s, "super_user")
                  => s \in _get_elevated_su([board |-> s, sa |-> Null])
             /\ s \in _get_elevated_su([board |-> s, sa |-> Null]) => list[s].elevated
  <2>1. ~f[s].revoked /\ f[s].left # 0
    BY <1>3, <1>4 DEF derive_session_state
  <2>2. /\ s \in Ids /\ sess[s] # Null /\ sess[s].left > 0 /\ ~sess[s].revoked
        /\ sess[s].type = f[s].type /\ (f[s].elev > 0 <=> sess[s].elev > 0)
    BY <1>3, <2>1, SessionKeys, Bounds DEF Looked
  <2>3. Entitled(sess[s])
    BY <2>2 DEF Order, Elevations
  <2>4. Live(s) /\ Unexpired(s)
    BY <2>2 DEF Live, Unexpired
  <2>5. list[s].session_type = "user" /\ Active(s)
          => s \in _get_session_user([board |-> s, sa |-> Null])
    BY <1>3, <2>2, <2>4 DEF _get_session_user, OfBoard
  <2>6. s \in _get_elevated_su([board |-> s, sa |-> Null])
          <=> sess[s].type = "user" /\ sess[s].elev > 0 /\ IsA(s, "super_user")
    BY <2>2, <2>4 DEF _get_elevated_su, OfBoard
  <2>7. list[s].elevated <=> sess[s].elev > 0
    BY <1>3, <2>2
  <2> QED BY <2>3, <2>4, <2>5, <2>6, <2>7 DEF Entitled
<1>5. ASSUME NEW s \in Ids,
             s \in _cookie_user([board |-> s, sa |-> Null]) \cup _get_sa_user([board |-> Null, sa |-> s])
      PROVE  s \in DOMAIN list /\ sess[s].user \in DOMAIN _collect_sessions
  <2>1. Unexpired(s) /\ sess[s] # Null /\ sess[s].left > 0
    BY <1>5 DEF _cookie_user, OfBoard, _get_sa_user, Unexpired
  <2>2. f[s] # Null /\ f[s].left > 0
    BY <1>1, <2>1, SessionKeys DEF AllLooked, Looked
  <2>3. s \in DOMAIN list
    BY <1>2, <2>2
  <2>4. sess[s].user \in DOMAIN _collect_sessions
    BY <2>1 DEF _collect_sessions
  <2> QED BY <2>3, <2>4
<1>6. ASSUME _portal_context(b).acting = "su_elevated_only"
      PROVE  _portal_context(b).elevation_ttl_seconds > 0
  <2>1. _get_sa_user(b) = {}
    <3> SUFFICES ASSUME _get_sa_user(b) # {} PROVE FALSE
      OBVIOUS
    <3>1. CASE b.board = Null
      BY <1>6, <3>1 DEF _portal_context
    <3>2. CASE b.board # Null
      BY <1>6, <3>2 DEF _portal_context
    <3> QED BY <3>1, <3>2
  <2>2. PICK s : s \in _get_elevated_su(b)
    BY <2>1 DEF Passes
  <2>3. s \in Ids /\ s = b.board /\ sess[s] # Null /\ sess[s].elev > 0
    BY <1>1, <2>2, Found
  <2>4. s # Null
    BY <2>3, SessionAssumption DEF Ids
  <2> QED BY <2>3, <2>4 DEF _portal_context
<1> QED BY <1>4, <1>5, <1>6 DEF ShownIsSo, Shown, list

\* A step that is no commit only wears a row, and a commit does not take a revocation back.
LEMMA RevokedStays ==
  ASSUME Order, [SessionsNext]_sessionVars, NEW s \in Ids
  PROVE  StaysRevoked(s)
<1>1. \A r : derive_session_state(r) = "revoked" <=> r.revoked
  BY DEF derive_session_state, activity
<1>2. sess[s] # Null /\ sess[s].revoked /\ sess'[s] # Null => sess'[s].revoked
  <2>1. CASE \E w \in Threads : Commit(w)
    BY <2>1, OrderCommit
  <2>2. CASE AllWorn(sess, sess')
    BY <2>2 DEF AllWorn, Worn
  <2> QED BY <2>1, <2>2, OrderStep
<1> QED BY <1>1, <1>2 DEF StaysRevoked

(* What the operator's pages show of every session is what the gates accept of it as long as
   its account is active and of the role, what the gates accept is shown, and a session that
   was shown as revoked is never shown otherwise again; whoever is suspended, brought back or
   given another role meanwhile. *)
THEOREM ViewsTellTheTruth == SessionsSpec => ViewsAreTrue
<1>1. Order => \A b \in Cookies : Passes(b) => ShownIsSo(b)
  BY ListIsSo
<1>2. ASSUME Order, [SessionsNext]_sessionVars
      PROVE  [\A s \in Ids : StaysRevoked(s)]_sessionVars
  BY <1>2, RevokedStays
<1> QED BY <1>1, <1>2, Ordered, PTL DEF SessionsSpec, ViewsAreTrue
-----------------------------------------------------------------------------
\* What is left to a session is no more than what the ceiling leaves to its age, and so it
\* will be when the beats that are about to be written are.
Capped(r) == r.age + r.left <= CapMax
Meets(c, r) == c \in Beats => r.age + c.left <= CapMax

Ends ==
  /\ \A s \in Ids : sess[s] # Null => Capped(sess[s])
  /\ \A w \in Threads : \A s \in DOMAIN unit[w].rows :
       sess[s] # Null => Meets(unit[w].rows[s], sess[s])
  /\ \A w \in Threads : \A s \in DOMAIN unit[w].born : Capped(unit[w].born[s])

\* A row grows older and a write that waits comes nearer by the same tick.
LEMMA OlderEnds ==
  ASSUME NEW r \in SessionRow
  PROVE  /\ Capped(r) => Capped(Older(r))
         /\ \A c \in Changes : Meets(c, r) => Meets(Older(c), Older(r))
<1> DEFINE n == Older(r)
<1>1. /\ n.age = Lower(r.age + 1, CapMax)
      /\ n.left = (IF r.left = 0 THEN 0 ELSE r.left - 1)
  BY SessionKeys DEF Older, Later
<1>2. r.age \in 0..CapMax /\ r.left \in 0..CapMax /\ CapMax \in Nat
  BY SessionKeys, Bounds
<1> HIDE DEF n
<1>3. Capped(r) => Capped(n)
  BY <1>1, <1>2 DEF Capped, Lower
<1>4. ASSUME NEW c \in Changes, Meets(c, r), Older(c) \in Beats
      PROVE  n.age + Older(c).left <= CapMax
  <2>1. /\ \A x \in Beats : DOMAIN x = {"quiet", "left"}
        /\ \A x \in Terms : DOMAIN x = {"elev"}
        /\ \A x \in Marks : DOMAIN x = {"revoked"}
    BY DEF Beats, Terms, Marks
  <2>2. DOMAIN Older(c) = DOMAIN c
    BY DEF Older
  <2>3. c \in Beats /\ c.left \in 0..CapMax /\ DOMAIN c = {"quiet", "left"}
    BY <1>4, <2>1, <2>2 DEF Changes, Beats
  <2>4. Older(c).left = (IF c.left = 0 THEN 0 ELSE c.left - 1)
    BY <2>3 DEF Older, Later
  <2>5. r.age + c.left <= CapMax
    BY <1>4, <2>3 DEF Meets
  <2> QED BY <1>1, <1>2, <2>3, <2>4, <2>5 DEF Lower
<1> QED BY <1>3, <1>4 DEF Meets, n

\* A write that meets the row leaves it under the ceiling, and its age as it was.
LEMMA OverEnds ==
  ASSUME NEW r \in SessionRow, NEW c \in Changes, Capped(r), Meets(c, r)
  PROVE  Capped(Over(c, r)) /\ Over(c, r).age = r.age
<1>0. /\ \A x \in Beats : DOMAIN x = {"quiet", "left"}
      /\ \A x \in Terms : DOMAIN x = {"elev"}
      /\ \A x \in Marks : DOMAIN x = {"revoked"}
  BY DEF Beats, Terms, Marks
<1>1. "age" \notin DOMAIN c
  BY <1>0 DEF Changes
<1>2. Over(c, r).age = r.age
  BY <1>1, SessionKeys DEF Over
<1>3. CASE c \in Beats
  BY <1>2, <1>3, OverBeat DEF Capped, Meets
<1>4. CASE c \in Terms
  BY <1>2, <1>4, OverTerm DEF Capped
<1>5. CASE c \in Marks
  BY <1>2, <1>5, OverMark DEF Capped
<1> QED BY <1>2, <1>3, <1>4, <1>5 DEF Changes

\* What only looks changes neither an age nor an end.
LEMMA EndsLook ==
  ASSUME Order, Ends, AllLooked(sess, sess'), UNCHANGED unit
  PROVE  Ends'
<1>1. \A s \in Ids : sess'[s] # Null => /\ sess[s] # Null /\ sess'[s].age = sess[s].age
                                        /\ sess'[s].left = sess[s].left
  BY DEF AllLooked, Looked
<1>2. \A w \in Threads : DOMAIN unit[w].rows \subseteq Ids
  BY WritesParts DEF Order, Types
<1> QED BY <1>1, <1>2 DEF Ends, Capped, Meets

LEMMA EndsDecide ==
  ASSUME Order, Ends, NEW w \in Threads, NEW q, Decide(w, q), AllLooked(sess, sess'),
         DOMAIN q.rows \subseteq Ids, \A s \in DOMAIN q.rows : sess[s] # Null => Meets(q.rows[s], sess[s]),
         \A s \in DOMAIN q.born : Capped(q.born[s])
  PROVE  Ends'
<1>1. \A s \in Ids : sess'[s] # Null => /\ sess[s] # Null /\ sess'[s].age = sess[s].age
                                        /\ sess'[s].left = sess[s].left
  BY DEF AllLooked, Looked
<1>2. \A v \in Threads : DOMAIN unit[v].rows \subseteq Ids
  BY WritesParts DEF Order, Types
<1>3. \A v \in Threads : unit'[v] = IF v = w THEN q ELSE unit[v]
  BY DEF Decide, Order, Types
<1> QED BY <1>1, <1>2, <1>3 DEF Ends, Capped, Meets

LEMMA EndsTick ==
  ASSUME Order, Ends, Tick
  PROVE  Ends'
<1>1. /\ sess \in Rows /\ unit \in [Threads -> Writes]
      /\ \A s \in Ids : sess'[s] = IF sess[s] = Null THEN Null ELSE Older(sess[s])
  BY DEF Order, Types, Tick
<1>2. ASSUME NEW w \in Threads
      PROVE  /\ DOMAIN unit'[w].rows = DOMAIN unit[w].rows
             /\ DOMAIN unit'[w].born = DOMAIN unit[w].born
             /\ \A s \in DOMAIN unit[w].rows : unit'[w].rows[s] = Older(unit[w].rows[s])
             /\ \A s \in DOMAIN unit[w].born : unit'[w].born[s] = Older(unit[w].born[s])
  BY <1>1 DEF Tick, Writes
<1>3. ASSUME NEW w \in Threads
      PROVE  /\ DOMAIN unit[w].rows \subseteq Ids
             /\ \A s \in DOMAIN unit[w].rows : unit[w].rows[s] \in Changes
             /\ \A s \in DOMAIN unit[w].born : unit[w].born[s] \in SessionRow
  BY <1>1, WritesParts
<1>4. ASSUME NEW s \in Ids, sess'[s] # Null
      PROVE  Capped(sess'[s])
  <2>1. sess[s] \in SessionRow /\ Capped(sess[s]) /\ sess'[s] = Older(sess[s])
    BY <1>1, <1>4 DEF Rows, Ends
  <2> QED BY <2>1, OlderEnds
<1>5. ASSUME NEW w \in Threads, NEW s \in DOMAIN unit'[w].rows, sess'[s] # Null
      PROVE  Meets(unit'[w].rows[s], sess'[s])
  <2>1. s \in DOMAIN unit[w].rows /\ s \in Ids /\ unit[w].rows[s] \in Changes
    BY <1>2, <1>3, <1>5
  <2>2. sess[s] # Null /\ sess[s] \in SessionRow /\ sess'[s] = Older(sess[s])
    BY <1>1, <1>5, <2>1 DEF Rows
  <2>3. Meets(unit[w].rows[s], sess[s])
    BY <2>1, <2>2 DEF Ends
  <2> QED BY <1>2, <2>1, <2>2, <2>3, OlderEnds
<1>6. ASSUME NEW w \in Threads, NEW s \in DOMAIN unit'[w].born
      PROVE  Capped(unit'[w].born[s])
  <2>1. s \in DOMAIN unit[w].born /\ unit[w].born[s] \in SessionRow /\ Capped(unit[w].born[s])
    BY <1>2, <1>3, <1>6 DEF Ends
  <2> QED BY <1>2, <2>1, OlderEnds
<1> QED BY <1>4, <1>5, <1>6 DEF Ends

\* A commit writes what has come nearer with the row, over an age that no write changes.
LEMMA EndsCommit ==
  ASSUME Order, Ends, NEW w \in Threads, Commit(w)
  PROVE  Ends'
<1>1. /\ \A v \in Threads : unit'[v] = IF v = w THEN Nothing ELSE unit[v]
      /\ DOMAIN Nothing.rows = {} /\ DOMAIN Nothing.born = {}
  BY NothingIsWrites DEF Commit, Order, Types
<1>2. ASSUME NEW s \in Ids, sess'[s] # Null
      PROVE  /\ Capped(sess'[s])
             /\ s \notin DOMAIN unit[w].born => sess[s] # Null /\ sess'[s].age = sess[s].age
  <2>1. CASE sess'[s] = sess[s]
    BY <1>2, <2>1 DEF Ends
  <2>2. CASE s \in DOMAIN unit[w].born /\ sess'[s] = unit[w].born[s]
    BY <2>2 DEF Ends
  <2>3. CASE /\ s \in DOMAIN unit[w].rows /\ sess[s] # Null /\ sess[s] \in SessionRow
             /\ unit[w].rows[s] \in Changes /\ sess'[s] = Over(unit[w].rows[s], sess[s])
    <3>1. Capped(sess[s]) /\ Meets(unit[w].rows[s], sess[s])
      BY <2>3 DEF Ends
    <3> QED BY <2>3, <3>1, OverEnds
  <2> QED BY <1>2, <2>1, <2>2, <2>3, CommitLeaves
<1>3. ASSUME NEW v \in Threads, NEW s \in DOMAIN unit'[v].rows, sess'[s] # Null
      PROVE  Meets(unit'[v].rows[s], sess'[s])
  <2>1. v # w /\ unit'[v] = unit[v] /\ s \in DOMAIN unit[v].rows
    BY <1>1, <1>3
  <2>2. s \in Ids
    BY <2>1, WritesParts DEF Order, Types
  <2>3. s \notin DOMAIN unit[w].born
    BY <2>1 DEF Order, OwnIds, Mentions
  <2>4. sess[s] # Null /\ sess'[s].age = sess[s].age
    BY <1>2, <1>3, <2>2, <2>3
  <2>5. Meets(unit[v].rows[s], sess[s])
    BY <2>1, <2>4 DEF Ends
  <2> QED BY <2>1, <2>4, <2>5 DEF Meets
<1>4. \A v \in Threads : \A s \in DOMAIN unit'[v].born : Capped(unit'[v].born[s])
  BY <1>1 DEF Ends
<1> QED BY <1>2, <1>3, <1>4 DEF Ends

\* A term and a mark are no beats.
LEMMA OthersMeet ==
  /\ \A n, x : Meets([elev |-> n], x) /\ Meets([revoked |-> TRUE], x)
<1>1. \A c \in Beats : DOMAIN c = {"quiet", "left"}
  BY DEF Beats
<1>2. \A n : DOMAIN [elev |-> n] # {"quiet", "left"}
  OBVIOUS
<1>3. DOMAIN [revoked |-> TRUE] # {"quiet", "left"}
  OBVIOUS
<1> QED BY <1>1, <1>2, <1>3 DEF Meets

\* A request that writes one row.
LEMMA EndsOne ==
  ASSUME Order, Ends, NEW w \in Threads, NEW s \in Ids, NEW c, Meets(c, sess[s]),
         Decide(w, [Nothing EXCEPT !.rows = Only(s, c)]), AllLooked(sess, sess')
  PROVE  Ends'
<1> DEFINE q == [Nothing EXCEPT !.rows = Only(s, c)]
<1>1. q.rows = Only(s, c) /\ q.born = NoRows
  BY DEF Nothing
<1>2. DOMAIN q.rows = {s} /\ q.rows[s] = c /\ DOMAIN q.born = {}
  BY <1>1, OnlyRange, NothingIsWrites
<1>3. Decide(w, q)
  OBVIOUS
<1> HIDE DEF q
<1> QED BY <1>2, <1>3, EndsDecide

LEMMA EndsHeartbeat ==
  ASSUME Order, Ends, NEW w \in Threads, NEW b, heartbeat(w, b)
  PROVE  Ends'
<1>1. PICK s \in {x \in OfBoard(b) : Live(x)} :
        Decide(w, [Nothing EXCEPT !.rows = Only(s, [quiet |-> 0, left |-> slide_session_expiry(s)])])
  BY DEF heartbeat
<1>2. s \in Ids /\ sess[s] # Null /\ sess[s] \in SessionRow
  BY DEF OfBoard, Order, Types, Rows
<1>3. /\ sess[s].age \in 0..CapMax /\ CapMax \in Nat
      /\ policy["cap"] \in 1..CapMax /\ policy["slide"] \in 1..CapMax
  BY <1>2, SessionKeys, Bounds DEF Order, Types
<1>4. sess[s].age + slide_session_expiry(s) <= CapMax
  BY <1>3 DEF slide_session_expiry, Lower
<1>5. Meets([quiet |-> 0, left |-> slide_session_expiry(s)], sess[s])
  BY <1>4 DEF Meets
<1>6. AllLooked(sess, sess')
  BY SameIsLooked DEF heartbeat, Order, Types
<1> QED BY <1>1, <1>2, <1>5, <1>6, EndsOne

\* The requests that neither beat nor make a session.
LEMMA EndsOthers ==
  ASSUME Order, Ends, NEW w \in Threads, NEW b \in Cookies,
         \/ logout(w, b) \/ portal_page(w, b) \/ admin_elevate(w, b) \/ admin_unelevate(w, b)
         \/ admin_logout(w, b) \/ \E s \in Ids : portal_api_session_revoke(w, b, s)
  PROVE  Ends'
<1>0. sess \in Rows /\ AllLooked(sess, sess)
  BY SameIsLooked DEF Order, Types
<1>1. CASE logout(w, b)
  <2> DEFINE q == [Nothing EXCEPT !.gone = {b.board}]
  <2>1. DOMAIN q.rows = {} /\ DOMAIN q.born = {}
    BY NothingIsWrites DEF Nothing
  <2>2. Decide(w, q) /\ AllLooked(sess, sess')
    BY <1>0, <1>1 DEF logout
  <2> HIDE DEF q
  <2> QED BY <2>1, <2>2, EndsDecide
<1>2. CASE portal_page(w, b)
  <2>1. PICK s \in _get_elevated_su(b) : Decide(w, [Nothing EXCEPT !.rows = Only(s, [elev |-> TTL])])
    BY <1>2 DEF portal_page
  <2>2. s \in Ids /\ AllLooked(sess, sess')
    BY <1>0, <1>2, Found DEF portal_page
  <2> QED BY <2>1, <2>2, OthersMeet, EndsOne
<1>3. CASE admin_elevate(w, b) \/ admin_unelevate(w, b)
  <2>1. PICK s \in _get_session_user(b), n \in {0, TTL} :
          Decide(w, [Nothing EXCEPT !.rows = Only(s, [elev |-> n])])
    BY <1>0, <1>3, Found DEF admin_elevate, admin_unelevate
  <2>2. s \in Ids /\ AllLooked(sess, sess')
    BY <1>0, <1>3, Found, TouchedIsLooked DEF admin_elevate, admin_unelevate
  <2> QED BY <2>1, <2>2, OthersMeet, EndsOne
<1>4. CASE admin_logout(w, b)
  <2> DEFINE gone == {s \in Ids : s = b.sa /\ sess[s] # Null}
             rows == [s \in BySuperUser(b) |-> [elev |-> 0]]
             q == [rows |-> rows, born |-> NoRows, gone |-> gone]
  <2>1. Decide(w, q)
    <3>1. Decide(w, [Nothing EXCEPT !.gone = gone, !.rows = rows])
      BY <1>4 DEF admin_logout
    <3> HIDE DEF gone, rows
    <3> QED BY <3>1, NothingBut
  <2>2. AllLooked(sess, sess')
    BY <1>0, <1>4, TouchedIsLooked DEF admin_logout
  <2>3. /\ DOMAIN q.rows \subseteq Ids /\ DOMAIN q.born = {}
        /\ \A s \in DOMAIN q.rows : Meets(q.rows[s], sess[s])
    BY <1>0, Found, OthersMeet, NothingIsWrites
  <2> HIDE DEF q
  <2> QED BY <2>1, <2>2, <2>3, EndsDecide
<1>5. ASSUME NEW s \in Ids, portal_api_session_revoke(w, b, s)
      PROVE  Ends'
  <2>1. AllLooked(sess, sess')
    BY <1>0, <1>5, GateIsLooked DEF portal_api_session_revoke
  <2> QED BY <1>5, <2>1, OthersMeet, EndsOne DEF portal_api_session_revoke
<1> QED BY <1>1, <1>2, <1>3, <1>4, <1>5

\* A new session has its whole time before it, which no setting makes longer than the ceiling.
LEMMA EndsCreates ==
  ASSUME Order, Ends, NEW w \in Threads, NEW u, NEW type, NEW lasts \in 0..CapMax,
         _create_session(w, u, type, lasts), AllLooked(sess, sess')
  PROVE  Ends'
<1> DEFINE row == [user |-> u, type |-> type, age |-> 0, left |-> lasts,
                   elev |-> 0, quiet |-> Null, revoked |-> FALSE]
<1>1. PICK S \in SUBSET Ids :
        Decide(w, [Nothing EXCEPT !.rows = [x \in S |-> [revoked |-> TRUE]],
                                  !.born = Only(used + 1, row)])
  BY DEF _create_session
<1>2. Capped(row)
  BY Bounds DEF Capped
<1> DEFINE rows == [x \in S |-> [revoked |-> TRUE]]
           born == Only(used + 1, row)
           q == [rows |-> rows, born |-> born, gone |-> {}]
<1>3. /\ DOMAIN rows \subseteq Ids
      /\ \A s \in DOMAIN rows : Meets(rows[s], sess[s])
  BY OthersMeet
<1> HIDE DEF row
<1>4. \A s \in DOMAIN born : born[s] = row
  BY DEF Only
<1> HIDE DEF rows, born
<1>5. Decide(w, q)
  <2>1. Decide(w, [Nothing EXCEPT !.rows = rows, !.born = born])
    BY <1>1 DEF rows, born
  <2> QED BY <2>1, NothingBut
<1>6. q.rows = rows /\ q.born = born
  OBVIOUS
<1> HIDE DEF q
<1> QED BY <1>2, <1>3, <1>4, <1>5, <1>6, EndsDecide

LEMMA EndsStep ==
  ASSUME Order, Ends, [SessionsNext]_sessionVars
  PROVE  Ends'
<1>0. sess \in Rows /\ AllLooked(sess, sess)
  BY SameIsLooked DEF Order, Types
<1>1. CASE UNCHANGED sessionVars
  BY <1>0, <1>1, EndsLook DEF sessionVars
<1>2. CASE Tick
  BY <1>2, EndsTick
<1>3. ASSUME NEW p \in Policies, NEW key \in Knobs, portal_api_policy_set(p, key)
      PROVE  Ends'
  BY <1>0, <1>3, EndsLook DEF portal_api_policy_set
<1>4. ASSUME NEW w \in Threads, Commit(w)
      PROVE  Ends'
  BY <1>4, EndsCommit
<1>5. ASSUME NEW w \in Threads, NEW u \in Users, login_submit(w, u)
      PROVE  Ends'
  <2>1. policy["slide"] \in 0..CapMax
    BY Bounds DEF Order, Types
  <2>2. AllLooked(sess, sess')
    BY <1>0, <1>5 DEF login_submit
  <2> QED BY <1>5, <2>1, <2>2, EndsCreates DEF login_submit
<1>6. ASSUME NEW w \in Threads, NEW b, admin_login(w, b)
      PROVE  Ends'
  <2>1. TTL \in 0..CapMax
    BY Bounds
  <2>2. AllLooked(sess, sess')
    BY <1>0, <1>6, TouchedIsLooked DEF admin_login
  <2> QED BY <1>6, <2>1, <2>2, EndsCreates DEF admin_login, _create_sa_session
<1>7. ASSUME NEW b \in Cookies, visit(b) \/ sweep_stale_sessions(b)
      PROVE  Ends'
  BY <1>0, <1>7, TouchedIsLooked, GateIsLooked, SweptIsLooked, EndsLook
  DEF visit, sweep_stale_sessions
<1>8. ASSUME NEW b, NEW u, NEW new, ChangeAccount(b, u, new)
      PROVE  Ends'
  BY <1>0, <1>8, GateIsLooked, EndsLook DEF ChangeAccount
<1>9. ASSUME NEW b \in Cookies, NEW u \in Users,
             \/ Disable(b, u) \/ Enable(b, u)
             \/ \E k \in Roles : change_user_role(b, u, k)
      PROVE  Ends'
  BY <1>8, <1>9 DEF Disable, Enable, change_user_role
<1> QED BY <1>1, <1>2, <1>3, <1>4, <1>5, <1>6, <1>7, <1>9, EndsHeartbeat, EndsOthers DEF SessionsNext

(* No session outlives the ceiling of the absolute cap, whatever was set between its beats
   and however late a beat that has computed its end commits. *)
THEOREM SessionsEndByCap == SessionsSpec => []EndsByCap
<1>1. SessionsInit => Ends
  BY NothingIsWrites DEF SessionsInit, Ends
<1>2. Order /\ Ends /\ [SessionsNext]_sessionVars => Ends'
  BY EndsStep
<1>3. Ends => EndsByCap
  BY DEF Ends, Capped, EndsByCap
<1> QED BY <1>1, <1>2, <1>3, Ordered, PTL DEF SessionsSpec
=============================================================================
