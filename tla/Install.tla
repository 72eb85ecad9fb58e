------------------------------ MODULE Install ------------------------------
(***************************************************************************)
(* The install: the first super admin, and the credentials of the Forgejo  *)
(* beside the board, made once and parked in a file.                       *)
(*                                                                         *)
(* The wizard's requests (app/api/v2/bootstrap.py) and the operator's      *)
(* shell (scripts/bootstrap_forgejo.py) take the same steps on the same    *)
(* Forgejo and the same file, and nothing orders them.  A job may end      *)
(* between any two of its steps: its process is killed, a call fails, or   *)
(* Forgejo acts and the answer is lost.                                    *)
(***************************************************************************)
EXTENDS Naturals, FiniteSets

CONSTANTS
  Requests,    \* request threads of the board
  Shells,      \* runs of the operator's script
  Ips,         \* addresses that requests come from
  Emails,      \* addresses that a super admin may be given
  MaxSecrets,  \* bound on the passwords and tokens ever made
  None,        \* no file, no lock
  Torn         \* a park file that is not JSON

Workers == Requests \cup Shells

ASSUME InstallAssumption ==
  /\ IsFiniteSet(Requests) /\ IsFiniteSet(Shells) /\ Requests \cap Shells = {}
  /\ MaxSecrets \in Nat
  /\ None \notin Ips

VARIABLES
  sas,      \* e-mail addresses of the users whose role is super_admin
  su,       \* an active super_user exists
  firstIp,  \* bootstrap._first_ip, memory of the board's process
  forgejo,  \* Forgejo's accounts and the service account's tokens
  park,     \* the park file
  minted,   \* passwords and tokens made so far; each is a number
  job       \* what each worker is doing

vars == <<sas, su, firstIp, forgejo, park, minted, job>>

-----------------------------------------------------------------------------
(* The data *)

\* A secret; 0 is none.
Secrets == 0 .. MaxSecrets

Doc == [admin : Secrets, service : Secrets, token : Secrets]

NoDoc == [admin |-> 0, service |-> 0, token |-> 0]

Places == {"idle", "sa_lock", "sa_insert", "sa_session", "sa_clear", "admin", "service", "token",
           "new_admin", "new_token", "verify", "truncate", "write"}

Idle == [at |-> "idle", ip |-> None, email |-> None, doc |-> NoDoc]

Go(w, j) == job' = [job EXCEPT ![w] = j]

GoTo(w, place) == Go(w, [job[w] EXCEPT !.at = place])

Hold(w, place, doc) == Go(w, [job[w] EXCEPT !.at = place, !.doc = doc])

gen_password == minted + 1

Mint == minted < MaxSecrets /\ minted' = gen_password

install_open == sas = {} \/ ~su

\* Whether the lock of the first address lets this one through.
_first_ip_lock(ip) == firstIp \in {None, ip}

\* The wizard's Forgejo endpoints are for the super admin; a shell asks nobody.
_require_sa(w) == w \in Requests => sas # {}

Init ==
  /\ sas = {} /\ su = FALSE /\ firstIp = None
  /\ forgejo = [admin |-> 0, service |-> 0, tokens |-> {}]
  /\ park = None /\ minted = 0
  /\ job = [w \in Workers |-> Idle]

-----------------------------------------------------------------------------
(* The super admin *)

\* The status request writes nothing, but while the install is open it takes the lock.
bootstrap_status(ip) ==
  /\ install_open /\ _first_ip_lock(ip)
  /\ firstIp' = ip
  /\ UNCHANGED <<sas, su, forgejo, park, minted, job>>

\* Mutant: no super admin is looked for first.
CountNone == TRUE

NoSuperAdmin == sas = {}

\* The count, the lock, the user, the session and the release of the lock are apart.
create_sa(w, ip, email) ==
  /\ w \in Requests /\ job[w] = Idle
  /\ NoSuperAdmin
  /\ Go(w, [at |-> "sa_lock", ip |-> ip, email |-> email, doc |-> NoDoc])
  /\ UNCHANGED <<sas, su, firstIp, forgejo, park, minted>>

Lock(w) ==
  /\ job[w].at = "sa_lock" /\ _first_ip_lock(job[w].ip)
  /\ firstIp' = job[w].ip
  /\ GoTo(w, "sa_insert")
  /\ UNCHANGED <<sas, su, forgejo, park, minted>>

Insert(w) ==
  /\ job[w].at = "sa_insert" /\ job[w].email \notin sas
  /\ sas' = sas \cup {job[w].email}
  /\ GoTo(w, "sa_session")
  /\ UNCHANGED <<su, firstIp, forgejo, park, minted>>

Session(w) ==
  /\ job[w].at = "sa_session"
  /\ GoTo(w, "sa_clear")
  /\ UNCHANGED <<sas, su, firstIp, forgejo, park, minted>>

_clear_first_ip_lock(w) ==
  /\ job[w].at = "sa_clear"
  /\ firstIp' = None
  /\ Go(w, Idle)
  /\ UNCHANGED <<sas, su, forgejo, park, minted>>

\* The super admin makes the first super user in the portal (module Access).
ProvisionSU ==
  /\ sas # {} /\ ~su /\ su' = TRUE
  /\ UNCHANGED <<sas, firstIp, forgejo, park, minted, job>>

-----------------------------------------------------------------------------
(* The Forgejo accounts and the park file *)

\* Refused when the park file exists; then the health check, which changes nothing.
bootstrap_forgejo(w) ==
  /\ job[w] = Idle /\ _require_sa(w)
  /\ park = None
  /\ GoTo(w, "admin")
  /\ UNCHANGED <<sas, su, firstIp, forgejo, park, minted>>

\* Forgejo refuses a second account of the name, and the job ends there.
CreateAdmin(w) ==
  /\ job[w].at = "admin" /\ forgejo.admin = 0 /\ Mint
  /\ forgejo' = [forgejo EXCEPT !.admin = gen_password]
  /\ Hold(w, "service", [job[w].doc EXCEPT !.admin = gen_password])
  /\ UNCHANGED <<sas, su, firstIp, park>>

\* Asked with the admin's password, which a reset may have changed meanwhile.
CreateService(w) ==
  /\ job[w].at = "service" /\ forgejo.service = 0 /\ forgejo.admin = job[w].doc.admin /\ Mint
  /\ forgejo' = [forgejo EXCEPT !.service = gen_password]
  /\ Hold(w, "token", [job[w].doc EXCEPT !.service = gen_password])
  /\ UNCHANGED <<sas, su, firstIp, park>>

\* Mutant: a new token takes the place of the old ones.
OnlyTheNew(tokens, t) == {t}

Issue(tokens, t) == tokens \cup {t}

\* The last step of the bootstrap and the only one of reset-service-token.
CreateToken(w) ==
  /\ job[w].at \in {"token", "new_token"} /\ forgejo.service = job[w].doc.service /\ Mint
  /\ forgejo' = [forgejo EXCEPT !.tokens = Issue(@, gen_password)]
  /\ Hold(w, "truncate", [job[w].doc EXCEPT !.token = gen_password])
  /\ UNCHANGED <<sas, su, firstIp, park>>

\* The resets and the verification start from the file; one that is not JSON ends them.
Read(w, place) ==
  /\ job[w] = Idle /\ _require_sa(w)
  /\ park \notin {None, Torn}
  /\ Hold(w, place, park)
  /\ UNCHANGED <<sas, su, firstIp, forgejo, park, minted>>

reset_admin(w) == Read(w, "new_admin")
reset_service_token(w) == Read(w, "new_token")
verify(w) == Read(w, "verify")

ChangePassword(w) ==
  /\ job[w].at = "new_admin" /\ Mint
  /\ forgejo' = [forgejo EXCEPT !.admin = gen_password]
  /\ Hold(w, "truncate", [job[w].doc EXCEPT !.admin = gen_password])
  /\ UNCHANGED <<sas, su, firstIp, park>>

\* Both round trips must succeed; then the file as it was read is written back, dated.
RoundTrip(w) ==
  /\ job[w].at = "verify"
  /\ forgejo.admin = job[w].doc.admin /\ job[w].doc.token \in forgejo.tokens
  /\ GoTo(w, "truncate")
  /\ UNCHANGED <<sas, su, firstIp, forgejo, park, minted>>

\* park_write empties the file and then writes it, in place.
Truncate(w) ==
  /\ job[w].at = "truncate"
  /\ park' = Torn
  /\ GoTo(w, "write")
  /\ UNCHANGED <<sas, su, firstIp, forgejo, minted>>

park_write(w) ==
  /\ job[w].at = "write"
  /\ park' = job[w].doc
  /\ Go(w, Idle)
  /\ UNCHANGED <<sas, su, firstIp, forgejo, minted>>

-----------------------------------------------------------------------------
(* What may go wrong, and the operator *)

Abandon(w) ==
  /\ job[w] # Idle
  /\ Go(w, Idle)
  /\ UNCHANGED <<sas, su, firstIp, forgejo, park, minted>>

\* A restart of the board's process ends its requests and forgets the lock.
Restart ==
  /\ firstIp' = None
  /\ job' = [w \in Workers |-> IF w \in Requests THEN Idle ELSE job[w]]
  /\ UNCHANGED <<sas, su, forgejo, park, minted>>

\* "To re-bootstrap, delete the park file": not while it is being written.
RemovePark ==
  /\ park # None /\ \A w \in Workers : job[w].at # "write"
  /\ park' = None
  /\ UNCHANGED <<sas, su, firstIp, forgejo, minted, job>>

Next ==
  \/ \E ip \in Ips : bootstrap_status(ip)
  \/ \E w \in Workers, ip \in Ips, email \in Emails : create_sa(w, ip, email)
  \/ ProvisionSU \/ Restart \/ RemovePark
  \/ \E w \in Workers :
       \/ Lock(w) \/ Insert(w) \/ Session(w) \/ _clear_first_ip_lock(w)
       \/ bootstrap_forgejo(w) \/ CreateAdmin(w) \/ CreateService(w) \/ CreateToken(w)
       \/ reset_admin(w) \/ reset_service_token(w) \/ verify(w)
       \/ ChangePassword(w) \/ RoundTrip(w) \/ Truncate(w) \/ park_write(w)
       \/ Abandon(w)

Spec == Init /\ [][Next]_vars

-----------------------------------------------------------------------------
(* Properties *)

\* Every variable keeps its type, and a secret in use is one that was made.
TypeOK ==
  /\ sas \subseteq Emails /\ su \in BOOLEAN /\ firstIp \in Ips \cup {None}
  /\ forgejo \in [admin : 0 .. minted, service : 0 .. minted, tokens : SUBSET (1 .. minted)]
  /\ park \in Doc \cup {None, Torn}
  /\ minted \in Nat /\ minted <= MaxSecrets
  /\ job \in [Workers -> [at : Places, ip : Ips \cup {None}, email : Emails \cup {None}, doc : Doc]]

\* "Exactly one SA" is a count read before the insert, guarded by a lock that the first
\* insert releases: overlapping requests make more, but never more than there are of them.
SuperAdminsOvershoot == Cardinality(sas) <= Cardinality(Requests)

\* Whatever jobs overlap and wherever one ends, a park file that can be read holds the
\* service account's password and a token that Forgejo takes: the file is written last, the
\* accounts are made once and an old token stays valid.
ParkIsUsable ==
  park \notin {None, Torn} =>
    /\ park.service = forgejo.service
    /\ park.token \in forgejo.tokens

\* "To re-bootstrap, delete the park file and re-run": without a park file the bootstrap
\* finds no account of its own in the way.  (Refuted: README, Disagreements.)
RebootstrapCanRun ==
  park = None /\ (\A w \in Workers : job[w] = Idle) => forgejo.admin = 0
=============================================================================
