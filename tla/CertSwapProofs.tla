--------------------------- MODULE CertSwapProofs ---------------------------
(***************************************************************************)
(* What TLAPS proves of CertSwap, for any number of requests, certificates,*)
(* hosts and seconds: types, the match of key and certificate on disk, the *)
(* restores of refused requests, and what an accepted one leaves running.  *)
(***************************************************************************)
EXTENDS CertSwap, TLAPS

(***************************************************************************)
(* The inductive invariant                                                 *)
(***************************************************************************)
Whole(files) == \A f \in Files : files[f] # NoFile

OnlySwap == {"backup", "chain", "key", "restore", "restoreKey", "restoreLoad", "rerender", "reload"}

\* The certificate a swap has been sent.
Cert(r) == r.upload["fullchain"]

Shape(r) ==
  /\ r.at = "idle" => r = Idle
  /\ r.op = "none" => r.at = "idle"
  /\ r.at \in OnlySwap => r.op = "swap"
  /\ r.at = "render" => r.op = "switch"
  /\ r.op = "swap" => Cert(r) \in Pairs /\ r.upload = Holding(Cert(r))

Refused(r) == r.at = "done" /\ r.answer = "refused"

\* What a swap that failed has left in the two files.
Left(r, files) == \A f \in Files : files[f] \in {r.pemBefore[f], Torn, Cert(r)}

\* Where a swap is, what the files and its backup hold: both files can be put
\* back, or neither was there.
Undoable == {"chain", "key", "load", "probe", "restore", "restoreKey"}

SwapInv(r, files, backup, bad) ==
  r.op = "swap" =>
    /\ r.at \in {"write", "backup", "chain"} => files = r.pemBefore
    /\ r.at \in Undoable =>
         /\ backup[r.dir] = r.pemBefore
         /\ ~bad => Matching(r.pemBefore) /\ ~Half(r.pemBefore)
    /\ r.at = "key" => files = [r.pemBefore EXCEPT !["fullchain"] = Cert(r)]
    /\ r.at \in {"load", "probe", "rerender", "reload"} => files = Holding(Cert(r))
    /\ r.at \in {"restore", "restoreKey"} => Left(r, files)
    /\ r.at = "restoreKey" => files["fullchain"] = r.pemBefore["fullchain"]
                                 \/ r.pemBefore["fullchain"] = NoFile
    /\ r.at \in {"restoreLoad", "undo", "undoLoad"} \/ Refused(r) =>
         (~bad /\ Whole(r.pemBefore) => files = r.pemBefore)

OneSwap == \A t, u \in Requests : req[t].op = "swap" /\ req[u].op = "swap" => t = u

\* A backup holds no file that is missing on disk: PEM files never go away.
Kept == \A s \in Seconds, f \in Files : pemBackup[s][f] # NoFile => pem[f] # NoFile

ReqInv == \A t \in Requests : Shape(req[t]) /\ SwapInv(req[t], pem, pemBackup, spoiled)

\* What a request that is alone finds in the Caddyfile, or in its backup of it.
ConfFor(r, conf, backup) ==
  /\ r.at \in {"render", "write"} => conf = r.confBefore
  /\ r.at \in {"backup", "chain", "key", "load", "probe", "restore", "restoreKey", "restoreLoad",
              "undo"} => backup[r.bak] = r.confBefore
  /\ r.at = "undoLoad" \/ Refused(r) => conf = r.confBefore

ConfInv ==
  \A t \in Requests : req[t].alone =>
    /\ \A u \in Requests : u # t => req[u].at = "idle"
    /\ ConfFor(req[t], caddyfile, confBackup)

SwapsInv == OneSwap /\ Kept /\ PairMatches /\ ReqInv

IInv == TypeOK /\ SwapsInv

(***************************************************************************)
(* Types                                                                   *)
(***************************************************************************)
LEMMA IdleIsLocal == Idle \in Local
BY CertAssumption DEF Idle, Local, Steps, Pem, Conf, Content, Seconds, Holding, FirstConf

\* Caddy runs a certificate the disk could hold.
LEMMA RunningType ==
  ASSUME NEW c \in Conf, NEW files \in Pem, Accepts(c, files)
  PROVE  Running(c, files) \in Process
<1>1. CASE c.tls = "internal"
  BY <1>1 DEF Running, Process
<1>2. CASE c.tls # "internal"
  <2>1. c.tls = "files"
    BY <1>2 DEF Conf
  <2>2. PICK cert \in Pairs : files = Holding(cert)
    BY <2>1 DEF Accepts
  <2>3. files["fullchain"] \in Pairs
    BY <2>2 DEF Holding, Files
  <2> QED
    BY <1>2, <2>3 DEF Running, Process
<1> QED
  BY <1>1, <1>2

LEMMA LoadType ==
  ASSUME TypeOK, NEW a \in LoadAnswers, reload_proxy(a)
  PROVE  caddy' \in Process
<1>1. CASE UNCHANGED caddy
  BY <1>1 DEF TypeOK
<1>2. CASE Accepts(caddyfile, pem) /\ caddy' = Running(caddyfile, pem)
  BY <1>2, RunningType DEF TypeOK
<1> QED
  BY <1>1, <1>2 DEF reload_proxy, LoadAnswers, Takes

LEMMA RenderType ==
  ASSUME TypeOK, NEW tls \in {"files", "internal"}, NEW host \in Hosts
  PROVE  _render_caddyfile(tls, host) \in Conf
BY DEF TypeOK, _render_caddyfile, Conf, Pem, Files

LEMMA EnterType ==
  ASSUME TypeOK, NEW t \in Requests, StartSwap(t) \/ StartSwitch(t)
  PROVE  \E r \in Local, quiet \in BOOLEAN :
           /\ req' = [u \in Requests |-> IF u = t THEN [r EXCEPT !.alone = quiet]
                                         ELSE [req[u] EXCEPT !.alone = FALSE]]
           /\ UNCHANGED <<clock, pem, caddyfile, pemBackup, confBackup, caddy, spoiled>>
<1> DEFINE quiet == \A u \in Requests : req[u].at = "idle"
<1>1. Fresh \in Local
  BY IdleIsLocal DEF Fresh, Local, Steps, TypeOK
<1>2. CASE StartSwap(t)
  <2>1. _render_caddyfile("files", DefaultHost) \in Conf
    BY RenderType, CertAssumption
  <2>2. PICK files \in [Files -> Pairs], host \in Hosts :
          LET r == [Fresh EXCEPT !.op = "swap", !.upload = files, !.host = host,
                                 !.conf = _render_caddyfile("files", DefaultHost)]
          IN  /\ req' = [u \in Requests |-> IF u = t THEN [r EXCEPT !.alone = quiet]
                                             ELSE [req[u] EXCEPT !.alone = FALSE]]
              /\ UNCHANGED <<clock, pem, caddyfile, pemBackup, confBackup, caddy, spoiled>>
    BY <1>2 DEF StartSwap, Enter
  <2>3. [Fresh EXCEPT !.op = "swap", !.upload = files, !.host = host,
                      !.conf = _render_caddyfile("files", DefaultHost)] \in Local
    <3>1. files \in Pem
      BY DEF Pem, Content
    <3> QED
      BY <1>1, <2>1, <3>1 DEF Local
  <2> QED
    BY <2>2, <2>3
<1>3. CASE StartSwitch(t)
  <2>1. PICK host \in Hosts :
          LET r == [Fresh EXCEPT !.op = "switch", !.host = host, !.at = "render"]
          IN  /\ req' = [u \in Requests |-> IF u = t THEN [r EXCEPT !.alone = quiet]
                                             ELSE [req[u] EXCEPT !.alone = FALSE]]
              /\ UNCHANGED <<clock, pem, caddyfile, pemBackup, confBackup, caddy, spoiled>>
    BY <1>3 DEF StartSwitch, Enter
  <2>2. [Fresh EXCEPT !.op = "switch", !.host = host, !.at = "render"] \in Local
    BY <1>1 DEF Local, Steps
  <2> QED
    BY <2>1, <2>2
<1> QED
  BY <1>2, <1>3

\* A new type for each step: the initial states, then every action.
LEMMA TypeInit == Init => TypeOK
<1> SUFFICES ASSUME Init PROVE TypeOK
  OBVIOUS
<1>1. clock \in Seconds /\ 0 \in Seconds
  BY CertAssumption DEF Init, Seconds
<1>2. pem \in Pem /\ caddyfile \in Conf
  BY CertAssumption DEF Init, Pem, Content, Holding, Conf, FirstConf
<1>3. Accepts(caddyfile, pem)
  BY CertAssumption DEF Init, Accepts, FirstConf
<1>4. caddy \in Process
  BY <1>2, <1>3, RunningType DEF Init
<1>5. Holding(NoFile) \in Pem
  BY DEF Holding, Pem, Content
<1> QED
  BY <1>1, <1>2, <1>4, <1>5, IdleIsLocal DEF Init, TypeOK

LEMMA TypeStep == TypeOK /\ [Next]_vars => TypeOK'
<1> SUFFICES ASSUME TypeOK, [Next]_vars PROVE TypeOK'
  OBVIOUS
<1> USE DEF DiskUnchanged
<1>1. ASSUME NEW t \in Requests, Step(t) PROVE TypeOK'
  <2>0. req[t] \in Local /\ \A u \in Requests : req[u] \in Local
    BY DEF TypeOK
  <2>1. CASE StartSwap(t) \/ StartSwitch(t)
    <3>1. PICK r \in Local, quiet \in BOOLEAN :
            /\ req' = [u \in Requests |-> IF u = t THEN [r EXCEPT !.alone = quiet]
                                          ELSE [req[u] EXCEPT !.alone = FALSE]]
            /\ UNCHANGED <<clock, pem, caddyfile, pemBackup, confBackup, caddy, spoiled>>
      BY <2>1, EnterType
    <3>2. [r EXCEPT !.alone = quiet] \in Local
      BY DEF Local
    <3>3. \A u \in Requests : [req[u] EXCEPT !.alone = FALSE] \in Local
      BY <2>0 DEF Local
    <3>4. req' \in [Requests -> Local]
      BY <3>1, <3>2, <3>3
    <3> QED
      BY <3>1, <3>4 DEF TypeOK
  <2>2. CASE Render(t)
    <3>1. _render_caddyfile("internal", req[t].host) \in Conf
      BY <2>0, RenderType DEF Local
    <3> QED
      BY <2>0, <2>2, <3>1 DEF Render, TypeOK, Local, Steps
  <2>3. CASE Write(t)
    BY <2>0, <2>3 DEF Write, _write_caddyfile_with_backup, ForOp, TypeOK, Local, Steps
  <2>4. CASE Backup(t)
    <3> DEFINE merged == [f \in Files |-> IF pem[f] = NoFile THEN pemBackup[clock][f] ELSE pem[f]]
    <3>a. pemBackup[clock] \in Pem /\ pem \in Pem
      BY DEF TypeOK
    <3>b. merged \in Pem
      BY <3>a DEF Pem
    <3>c. pemBackup' = pemBackup \/ pemBackup' = [pemBackup EXCEPT ![clock] = merged]
      BY <2>4 DEF Backup
    <3> HIDE DEF merged
    <3>1. pemBackup' \in [Seconds -> Pem] /\ spoiled' \in BOOLEAN
      BY <2>4, <3>b, <3>c DEF Backup, TypeOK
    <3>2. req' \in [Requests -> Local]
      BY <2>0, <2>4 DEF Backup, Goto, TypeOK, Local, Steps
    <3> QED
      BY <2>4, <3>1, <3>2 DEF Backup, TypeOK
  <2>5. CASE WriteChain(t) \/ WriteKey(t)
    <3>1. req[t].upload \in Pem /\ Torn \in Content
      BY <2>0 DEF Local, Content
    <3>2. pem' \in Pem
      BY <2>5, <3>1 DEF WriteChain, WriteKey, Upload, WriteFile, TypeOK, Pem
    <3>3. req' \in [Requests -> Local]
      <4>1. PICK step \in {"key", "load", "restore"} : Goto(t, step)
        BY <2>5 DEF WriteChain, WriteKey, Upload, WriteFile
      <4> QED
        BY <2>0, <4>1 DEF Goto, TypeOK, Local, Steps
    <3> QED
      BY <2>5, <3>2, <3>3 DEF WriteChain, WriteKey, Upload, WriteFile, TypeOK
  <2>6. CASE Load(t) \/ RestoreLoad(t) \/ UndoLoad(t) \/ Reload(t)
    <3>1. caddy' \in Process
      BY <2>6, LoadType DEF Load, RestoreLoad, UndoLoad, Reload
    <3>2. CASE Load(t)
      <4>1. \E l \in Local : req' = [req EXCEPT ![t] = l]
        <5>1. \/ Goto(t, "probe") \/ Answer(t, "error")
              \/ Goto(t, "restore") \/ Goto(t, "undo")
          BY <3>2 DEF Load, LoadAnswers, ForOp
        <5> QED
          BY <2>0, <5>1 DEF Goto, Answer, Local, Steps
      <4> QED
        BY <3>1, <3>2, <4>1 DEF Load, TypeOK
    <3>3. CASE RestoreLoad(t) \/ UndoLoad(t) \/ Reload(t)
      <4>1. req' \in [Requests -> Local]
        BY <2>0, <3>3 DEF RestoreLoad, UndoLoad, Reload, Goto, Answer, TypeOK, Local, Steps
      <4> QED
        BY <3>1, <3>3, <4>1 DEF RestoreLoad, UndoLoad, Reload, TypeOK
    <3> QED
      BY <2>6, <3>2, <3>3
  <2>7. CASE Probe(t) \/ Finish(t)
    BY <2>0, <2>7, IdleIsLocal DEF Probe, Finish, Goto, ForOp, TypeOK, Local, Steps
  <2>8. CASE Restore(t) \/ RestoreKey(t)
    <3>1. PICK file \in Files, next \in {"restoreKey", "restoreLoad"} : RestoreFile(t, file, next)
      BY <2>8 DEF Restore, RestoreKey, Files
    <3>2. pemBackup[req[t].dir] \in Pem /\ Torn \in Content /\ pem \in Pem
      BY <2>0 DEF TypeOK, Local, Content
    <3>3. pem' \in Pem /\ spoiled' \in BOOLEAN
      BY <3>1, <3>2 DEF RestoreFile, WriteFile, TypeOK, Pem
    <3>4. req' \in [Requests -> Local]
      BY <2>0, <3>1 DEF RestoreFile, WriteFile, Goto, TypeOK, Local, Steps
    <3> QED
      BY <3>1, <3>3, <3>4 DEF RestoreFile, WriteFile, TypeOK
  <2>9. CASE Undo(t)
    BY <2>0, <2>9 DEF Undo, Goto, TypeOK, Local, Steps
  <2>10. CASE Rerender(t)
    <3>1. _render_caddyfile("files", req[t].host) \in Conf
      BY <2>0, RenderType DEF Local
    <3> QED
      BY <2>0, <2>10, <3>1 DEF Rerender, _write_caddyfile_with_backup, Goto, TypeOK, Local, Steps
  <2> QED
    BY <1>1, <2>1, <2>2, <2>3, <2>4, <2>5, <2>6, <2>7, <2>8, <2>9, <2>10 DEF Step
<1>2. CASE ReloadButton
  BY <1>2, LoadType DEF ReloadButton, TypeOK
<1>3. CASE CaddyRestart
  <2>1. CASE Accepts(caddyfile, pem)
    BY <1>3, <2>1, RunningType DEF CaddyRestart, TypeOK
  <2>2. CASE ~Accepts(caddyfile, pem)
    BY <1>3, <2>2 DEF CaddyRestart, TypeOK, Process
  <2> QED
    BY <2>1, <2>2
<1>4. CASE Tick
  BY <1>4, CertAssumption DEF Tick, TypeOK, Seconds
<1>5. CASE UNCHANGED vars
  BY <1>5 DEF vars, TypeOK
<1> QED
  BY <1>1, <1>2, <1>3, <1>4, <1>5 DEF Next

\* The files, the backups, the process and the locals stay what the code takes
\* them for.
THEOREM TypeCorrect == Spec => []TypeOK
BY TypeInit, TypeStep, PTL DEF Spec

(***************************************************************************)
(* The files                                                               *)
(***************************************************************************)
\* A first installation that failed holds nothing but its own certificate.
LEMMA FirstIsSound ==
  ASSUME NEW r, Cert(r) \in Pairs, NEW files \in Pem, Left(r, files),
         \A f \in Files : r.pemBefore[f] = NoFile
  PROVE  Matching(files)
<1>1. Torn \notin Pairs /\ NoFile \notin Pairs
  BY CertAssumption
<1>2. ASSUME \A f \in Files : files[f] \in Pairs PROVE files = Holding(Cert(r))
  <2>1. \A f \in Files : files[f] = Cert(r)
    BY <1>1, <1>2 DEF Left
  <2> QED
    BY <2>1 DEF Holding, Pem
<1> QED
  BY <1>2 DEF Matching

LEMMA HoldingMatches ==
  ASSUME NEW c \in Pairs
  PROVE  Matching(Holding(c))
BY DEF Matching

(***************************************************************************)
(* Steps that leave the PEM files and their backups alone                  *)
(***************************************************************************)
\* A thread moves on, or is done, without touching the files.
LEMMA Advance ==
  ASSUME TypeOK, SwapsInv, NEW t \in Requests, NEW r \in Local,
         req' = [req EXCEPT ![t] = r], UNCHANGED <<pem, pemBackup, spoiled>>,
         req[t].at \notin {"key", "restore", "restoreKey"},
         r.op = req[t].op \/ r = Idle,
         Shape(r), SwapInv(r, pem, pemBackup, spoiled)
  PROVE  SwapsInv'
<1>1. \A u \in Requests : req'[u] = IF u = t THEN r ELSE req[u]
  BY DEF TypeOK
<1>2. Idle.op # "swap"
  BY DEF Idle
<1>3. OneSwap'
  BY <1>1, <1>2 DEF SwapsInv, OneSwap
<1>4. Kept'
  BY DEF SwapsInv, Kept
<1>5. PairMatches'
  BY <1>1 DEF SwapsInv, PairMatches, Matching
<1>6. ReqInv'
  BY <1>1 DEF SwapsInv, ReqInv
<1> QED
  BY <1>3, <1>4, <1>5, <1>6 DEF SwapsInv

\* A request arrives while no swap is in flight.
LEMMA Arrive ==
  ASSUME TypeOK, SwapsInv, NEW t \in Requests, StartSwap(t) \/ StartSwitch(t)
  PROVE  SwapsInv'
<1>1. \A u \in Requests : req[u] \in Local /\ req[u].op # "swap"
  BY DEF StartSwap, StartSwitch, Enter, LoopFree, TypeOK
<1>2. UNCHANGED <<pem, pemBackup, spoiled>>
  BY DEF StartSwap, StartSwitch, Enter
<1>3. \A u \in Requests : req[u].at \notin OnlySwap
  BY <1>1 DEF SwapsInv, ReqInv, Shape
<1>4. ~spoiled => Matching(pem)
  BY <1>3 DEF SwapsInv, PairMatches, OnlySwap
<1>5. PICK r : /\ req' = [u \in Requests |-> IF u = t THEN r ELSE [req[u] EXCEPT !.alone = FALSE]]
               /\ r.op \in {"swap", "switch"}
               /\ r.at \in {"render", "write"}
               /\ r.op = "swap" => /\ r.at = "write" /\ Cert(r) \in Pairs
                                    /\ r.upload = Holding(Cert(r))
               /\ r.at = "render" => r.op = "switch"
               /\ r.pemBefore = pem
  <2> DEFINE quiet == \A u \in Requests : req[u].at = "idle"
  <2>1. CASE StartSwap(t)
    <3>1. PICK files \in [Files -> Pairs], host \in Hosts :
            /\ Validated(files)
            /\ req' = [u \in Requests |-> IF u = t
                     THEN [[Fresh EXCEPT !.op = "swap", !.upload = files, !.host = host,
                             !.conf = _render_caddyfile("files", DefaultHost)]
                           EXCEPT !.alone = quiet]
                     ELSE [req[u] EXCEPT !.alone = FALSE]]
      BY <2>1 DEF StartSwap, Enter
    <3>a. files["fullchain"] \in Pairs /\ files = Holding(files["fullchain"])
      BY <3>1 DEF Validated, Holding, Files
    <3> DEFINE new == [[Fresh EXCEPT !.op = "swap", !.upload = files, !.host = host,
                             !.conf = _render_caddyfile("files", DefaultHost)]
                       EXCEPT !.alone = quiet]
    <3>2. /\ new.op = "swap" /\ new.at = "write" /\ new.upload = files
          /\ new.pemBefore = pem
      BY DEF Fresh, Idle
    <3>3. req' = [u \in Requests |-> IF u = t THEN new ELSE [req[u] EXCEPT !.alone = FALSE]]
      BY <3>1
    <3> HIDE DEF new
    <3> QED
      BY <3>a, <3>2, <3>3 DEF Cert
  <2>2. CASE StartSwitch(t)
    <3>1. PICK host \in Hosts :
            req' = [u \in Requests |-> IF u = t
                     THEN [[Fresh EXCEPT !.op = "switch", !.host = host, !.at = "render"]
                           EXCEPT !.alone = quiet]
                     ELSE [req[u] EXCEPT !.alone = FALSE]]
      BY <2>2 DEF StartSwitch, Enter
    <3> DEFINE new == [[Fresh EXCEPT !.op = "switch", !.host = host, !.at = "render"]
                       EXCEPT !.alone = quiet]
    <3>2. /\ new.op = "switch" /\ new.at = "render"
          /\ new.pemBefore = pem
      BY DEF Fresh, Idle
    <3>3. req' = [u \in Requests |-> IF u = t THEN new ELSE [req[u] EXCEPT !.alone = FALSE]]
      BY <3>1
    <3> HIDE DEF new
    <3> QED
      BY <3>2, <3>3
  <2> QED
    BY <2>1, <2>2
<1>6. /\ req'[t] = r
      /\ \A u \in Requests : u # t => req'[u] = [req[u] EXCEPT !.alone = FALSE]
  BY <1>5
<1>7. \A u \in Requests : u # t => req'[u].op = req[u].op /\ req'[u].at = req[u].at
  BY <1>1, <1>6 DEF Local
<1>8. OneSwap'
  BY <1>1, <1>7 DEF OneSwap
<1>9. Kept'
  BY <1>2 DEF SwapsInv, Kept
<1>10. PairMatches'
  BY <1>2, <1>4 DEF PairMatches, Matching
<1>11. Shape(r) /\ SwapInv(r, pem, pemBackup, spoiled)
  BY <1>5 DEF Shape, SwapInv, OnlySwap, Undoable, Refused
<1>12. \A u \in Requests : u # t => Shape(req'[u]) /\ req'[u].op # "swap"
  <2> SUFFICES ASSUME NEW u \in Requests, u # t
               PROVE  Shape(req'[u]) /\ req'[u].op # "swap"
    OBVIOUS
  <2>1. Shape(req[u]) /\ req[u] \in Local
    BY <1>1 DEF SwapsInv, ReqInv
  <2>2. req[u].at = "idle" => req'[u] = Idle
    BY <1>6, <2>1 DEF Shape, Idle
  <2> QED
    BY <1>1, <1>7, <2>1, <2>2 DEF Shape
<1>13. ReqInv'
  BY <1>2, <1>6, <1>11, <1>12 DEF ReqInv, SwapInv
<1> QED
  BY <1>8, <1>9, <1>10, <1>13 DEF SwapsInv

\* The steps that load, probe, answer or write the Caddyfile.
LEMMA QuietStep ==
  ASSUME TypeOK, SwapsInv, NEW t \in Requests,
         \/ Render(t) \/ Write(t) \/ Load(t) \/ Probe(t) \/ RestoreLoad(t)
         \/ Undo(t) \/ UndoLoad(t) \/ Reload(t) \/ Finish(t)
  PROVE  SwapsInv'
<1> DEFINE l == req[t]
           Next1(r) == /\ req' = [req EXCEPT ![t] = r] /\ r \in Local
                       /\ r.op = l.op \/ r = Idle
                       /\ Shape(r) /\ SwapInv(r, pem, pemBackup, spoiled)
<1>0. l \in Local /\ Shape(l) /\ SwapInv(l, pem, pemBackup, spoiled)
  BY DEF TypeOK, SwapsInv, ReqInv
<1>1. UNCHANGED <<pem, pemBackup, spoiled>> /\ l.at \notin {"key", "restore", "restoreKey"}
  BY DEF Render, Write, Load, Probe, RestoreLoad, Undo, UndoLoad, Reload,
         Finish, DiskUnchanged, At, _write_caddyfile_with_backup
<1>2. CASE Render(t)
  <2> DEFINE conf == _render_caddyfile("internal", l.host)
             r == [l EXCEPT !.at = "write", !.conf = conf]
  <2>1. conf \in Conf
    BY <1>0, RenderType DEF Local
  <2>2. req' = [req EXCEPT ![t] = r] /\ l.at = "render"
    BY <1>2 DEF Render, At
  <2> HIDE DEF conf
  <2>3. Next1(r)
    BY <1>0, <2>1, <2>2 DEF Local, Steps, Shape, SwapInv, Undoable, OnlySwap
  <2> HIDE DEF r
  <2> QED
    BY <1>1, <2>3, Advance
<1>3. CASE Write(t)
  <2> DEFINE r == [l EXCEPT !.at = IF l.op = "swap" THEN "backup" ELSE "load", !.bak = clock]
  <2>1. req' = [req EXCEPT ![t] = r] /\ l.at = "write" /\ clock \in Seconds
    BY <1>3 DEF Write, At, ForOp, TypeOK
  <2>2. r \in Local /\ Shape(r)
    BY <1>0, <2>1 DEF Local, Steps, Shape, OnlySwap, Cert
  <2>3. SwapInv(r, pem, pemBackup, spoiled) /\ r.op = l.op
    BY <1>0, <2>1 DEF Local, SwapInv, Undoable, Cert, Refused
  <2> HIDE DEF r
  <2> QED
    BY <1>1, <2>1, <2>2, <2>3, Advance
<1>4. CASE Load(t)
  <2>1. PICK r \in {[l EXCEPT !.at = "probe"], [l EXCEPT !.at = "done", !.answer = "error"],
                    [l EXCEPT !.at = ForOp(t, "restore", "undo")]} :
          req' = [req EXCEPT ![t] = r]
    BY <1>4 DEF Load, LoadAnswers, Goto, Answer
  <2>2. l.at = "load" /\ ForOp(t, "restore", "undo") = IF l.op = "swap" THEN "restore" ELSE "undo"
    BY <1>4 DEF Load, At, ForOp
  <2>3. r \in Local /\ Shape(r)
    <3>1. r \in Local
      BY <1>0, <2>1, <2>2 DEF Local, Steps
    <3>2. /\ r.op = l.op /\ r.upload = l.upload
          /\ r.at \in {"probe", "rerender", "restore", "undo", "done"}
          /\ r.at \in {"rerender", "restore"} => l.op = "swap"
      BY <1>0, <2>1, <2>2 DEF Local
    <3> QED
      BY <1>0, <2>1, <2>2, <3>1, <3>2 DEF Shape, OnlySwap, Cert
  <2>a. l.op = "swap" => Left(l, pem)
    <3>1. l.op = "swap" => pem = Holding(Cert(l))
      BY <1>0, <2>1, <2>2 DEF SwapInv
    <3> QED
      BY <3>1 DEF Left, Holding
  <2>b. /\ r.op = l.op /\ r.dir = l.dir /\ r.pemBefore = l.pemBefore /\ Cert(r) = Cert(l)
        /\ l.op = "swap" => r.at \in {"probe", "rerender", "restore"} \/ (r.at = "done" /\ ~Refused(r))
    BY <1>0, <2>1, <2>2 DEF Local, Cert, Refused
  <2>4. SwapInv(r, pem, pemBackup, spoiled) /\ r.op = l.op
    BY <1>0, <2>1, <2>2, <2>a, <2>b DEF SwapInv, Undoable, Left, Refused
  <2> QED
    BY <1>1, <2>1, <2>3, <2>4, Advance
<1>5. CASE Probe(t)
  <2>1. l.at = "probe" /\ ForOp(t, "restore", "undo") = IF l.op = "swap" THEN "restore" ELSE "undo"
    BY <1>5 DEF Probe, At, ForOp
  <2>2. PICK r \in {[l EXCEPT !.at = "rerender"], [l EXCEPT !.at = ForOp(t, "restore", "undo")],
                    [l EXCEPT !.at = "done", !.answer = "ok", !.clean = TRUE]} :
          req' = [req EXCEPT ![t] = r] /\ (r.at = "rerender" => l.op = "swap")
    <3>1. CASE Goto(t, "rerender") /\ l.op = "swap"
      BY <3>1 DEF Goto
    <3>2. CASE Goto(t, ForOp(t, "restore", "undo"))
      <4>1. ([l EXCEPT !.at = ForOp(t, "restore", "undo")]).at # "rerender"
        BY <1>0, <2>1 DEF Local
      <4> QED
        BY <3>2, <4>1 DEF Goto
    <3>3. CASE req' = [req EXCEPT ![t].at = "done", ![t].answer = "ok", ![t].clean = TRUE]
      <4>1. ([l EXCEPT !.at = "done", !.answer = "ok", !.clean = TRUE]).at # "rerender"
        BY <1>0 DEF Local
      <4> QED
        BY <3>3, <4>1
    <3> QED
      BY <1>5, <3>1, <3>2, <3>3 DEF Probe
  <2>3. r \in Local /\ Shape(r)
    <3>1. r \in Local
      BY <1>0, <2>1, <2>2 DEF Local, Steps
    <3>2. /\ r.op = l.op /\ r.upload = l.upload
          /\ r.at \in {"probe", "rerender", "restore", "undo", "done"}
          /\ r.at \in {"rerender", "restore"} => l.op = "swap"
      BY <1>0, <2>1, <2>2 DEF Local
    <3> QED
      BY <1>0, <2>1, <2>2, <3>1, <3>2 DEF Shape, OnlySwap, Cert
  <2>a. l.op = "swap" => Left(l, pem)
    <3>1. l.op = "swap" => pem = Holding(Cert(l))
      BY <1>0, <2>1, <2>2 DEF SwapInv
    <3> QED
      BY <3>1 DEF Left, Holding
  <2>b. /\ r.op = l.op /\ r.dir = l.dir /\ r.pemBefore = l.pemBefore /\ Cert(r) = Cert(l)
        /\ l.op = "swap" => r.at \in {"probe", "rerender", "restore"} \/ (r.at = "done" /\ ~Refused(r))
    BY <1>0, <2>1, <2>2 DEF Local, Cert, Refused
  <2>4. SwapInv(r, pem, pemBackup, spoiled) /\ r.op = l.op
    BY <1>0, <2>1, <2>2, <2>a, <2>b DEF SwapInv, Undoable, Left, Refused
  <2> QED
    BY <1>1, <2>2, <2>3, <2>4, Advance
<1>6. CASE RestoreLoad(t) \/ Undo(t)
  <2>1. PICK r \in {[l EXCEPT !.at = "undo"], [l EXCEPT !.at = "undoLoad"]} :
          /\ req' = [req EXCEPT ![t] = r]
          /\ l.at \in {"restoreLoad", "undo"}
    BY <1>6 DEF RestoreLoad, Undo, Goto, At
  <2>2. r \in Local /\ Shape(r)
    BY <1>0, <2>1 DEF Local, Steps, Shape, OnlySwap, Cert
  <2>3. SwapInv(r, pem, pemBackup, spoiled) /\ r.op = l.op
    BY <1>0, <2>1 DEF Local, SwapInv, Undoable, Cert, Refused
  <2> QED
    BY <1>1, <2>1, <2>2, <2>3, Advance
<1>7. CASE UndoLoad(t)
  <2> DEFINE r == [l EXCEPT !.at = "done", !.answer = "refused"]
  <2>1. req' = [req EXCEPT ![t] = r] /\ l.at = "undoLoad"
    BY <1>7 DEF UndoLoad, Answer, At
  <2>2. r \in Local /\ Shape(r)
    BY <1>0, <2>1 DEF Local, Steps, Shape, OnlySwap, Cert
  <2>3. SwapInv(r, pem, pemBackup, spoiled) /\ r.op = l.op
    BY <1>0, <2>1 DEF Local, SwapInv, Undoable, Cert, Refused
  <2> HIDE DEF r
  <2> QED
    BY <1>1, <2>1, <2>2, <2>3, Advance
<1>8. CASE Reload(t)
  <2>1. PICK a \in LoadAnswers :
          req' = [req EXCEPT ![t].at = "done", ![t].answer = "ok", ![t].clean = (a = "ok")]
    BY <1>8 DEF Reload
  <2> DEFINE b == (a = "ok")
             r == [l EXCEPT !.at = "done", !.answer = "ok", !.clean = b]
  <2>2. req' = [req EXCEPT ![t] = r] /\ l.at = "reload" /\ b \in BOOLEAN
    BY <1>8, <2>1 DEF Reload, At
  <2> HIDE DEF b
  <2>3. r \in Local /\ Shape(r)
    BY <1>0, <2>2 DEF Local, Steps, Shape, OnlySwap, Cert
  <2>4. SwapInv(r, pem, pemBackup, spoiled) /\ r.op = l.op
    BY <1>0, <2>2 DEF Local, SwapInv, Undoable, Cert, Refused
  <2> HIDE DEF r
  <2> QED
    BY <1>1, <2>2, <2>3, <2>4, Advance
<1>9. CASE Finish(t)
  <2>1. Shape(Idle) /\ SwapInv(Idle, pem, pemBackup, spoiled)
    BY DEF Shape, SwapInv, Idle, OnlySwap
  <2> QED
    BY <1>1, <1>9, <2>1, IdleIsLocal, Advance DEF Finish
<1> QED
  BY <1>2, <1>3, <1>4, <1>5, <1>6, <1>7, <1>8, <1>9

(***************************************************************************)
(* Steps of a swap on the files                                            *)
(***************************************************************************)
\* The one swap in flight changes the files: what is to be shown of it alone.
LEMMA FilesStep ==
  ASSUME TypeOK, SwapsInv, NEW t \in Requests, NEW r \in Local,
         req[t].op = "swap", r.op = "swap",
         req' = [req EXCEPT ![t] = r],
         Shape(r), SwapInv(r, pem', pemBackup', spoiled'), Kept',
         r.at \notin {"key", "restore", "restoreKey"} /\ ~spoiled' => Matching(pem')
  PROVE  SwapsInv'
<1>1. \A u \in Requests : req'[u] = IF u = t THEN r ELSE req[u]
  BY DEF TypeOK
<1>2. \A u \in Requests : u # t => req[u].op # "swap"
  BY DEF SwapsInv, OneSwap
<1>3. OneSwap'
  BY <1>1, <1>2 DEF OneSwap
<1>4. PairMatches'
  BY <1>1 DEF PairMatches, Matching
<1>5. ReqInv'
  <2> SUFFICES ASSUME NEW u \in Requests
               PROVE  Shape(req'[u]) /\ SwapInv(req'[u], pem', pemBackup', spoiled')
    BY DEF ReqInv
  <2>1. CASE u = t
    BY <1>1, <2>1
  <2>2. CASE u # t
    BY <1>1, <1>2, <2>2 DEF SwapsInv, ReqInv, SwapInv
  <2> QED
    BY <2>1, <2>2
<1> QED
  BY <1>3, <1>4, <1>5 DEF SwapsInv

\* A swap that Caddy took leaves a pair, whatever was on disk before.
LEMMA RerenderStep ==
  ASSUME TypeOK, SwapsInv, NEW t \in Requests, Rerender(t)
  PROVE  SwapsInv'
<1> DEFINE l == req[t]
           r == [l EXCEPT !.at = "reload"]
<1>0. l \in Local /\ Shape(l) /\ SwapInv(l, pem, pemBackup, spoiled) /\ l.at = "rerender"
  BY DEF TypeOK, SwapsInv, ReqInv, Rerender, At
<1>1. req' = [req EXCEPT ![t] = r] /\ UNCHANGED <<pem, pemBackup>>
  BY DEF Rerender, _write_caddyfile_with_backup, Goto
<1>2. l.op = "swap" /\ Cert(l) \in Pairs /\ pem = Holding(Cert(l))
  BY <1>0 DEF Shape, OnlySwap, SwapInv
<1>3. r \in Local /\ Shape(r) /\ r.op = "swap" /\ r.at = "reload" /\ Cert(r) = Cert(l)
  BY <1>0, <1>2 DEF Local, Steps, Shape, OnlySwap, Cert
<1> HIDE DEF r
<1>4. SwapInv(r, pem', pemBackup', spoiled')
  BY <1>1, <1>2, <1>3 DEF SwapInv, Undoable, Refused
<1>5. Kept'
  BY <1>1 DEF SwapsInv, Kept
<1>6. Matching(pem')
  BY <1>1, <1>2, HoldingMatches
<1> QED
  BY <1>1, <1>2, <1>3, <1>4, <1>5, <1>6, FilesStep

LEMMA BackupStep ==
  ASSUME TypeOK, SwapsInv, NEW t \in Requests, Backup(t)
  PROVE  SwapsInv'
<1> DEFINE l == req[t]
<1>0. l \in Local /\ Shape(l) /\ SwapInv(l, pem, pemBackup, spoiled) /\ l.at = "backup" /\ l.op = "swap"
  BY DEF TypeOK, SwapsInv, ReqInv, Backup, At, Shape, OnlySwap
<1>1. pem = l.pemBefore /\ pem \in Pem /\ clock \in Seconds
  BY <1>0 DEF SwapInv, TypeOK
<1>a. ~spoiled => Matching(pem)
  <2>1. \A u \in Requests : req[u].at \notin {"key", "restore", "restoreKey"}
    BY <1>0 DEF SwapsInv, OneSwap, ReqInv, Shape, OnlySwap
  <2> QED
    BY <2>1 DEF SwapsInv, PairMatches
<1>2. UNCHANGED pem
  BY DEF Backup
<1>3. CASE Goto(t, "undo") /\ UNCHANGED <<pemBackup, spoiled>>
  <2> DEFINE r == [l EXCEPT !.at = "undo"]
  <2>1. req' = [req EXCEPT ![t] = r]
    BY <1>3 DEF Goto
  <2>2. r \in Local /\ Shape(r) /\ r.op = "swap" /\ r.at = "undo"
    BY <1>0 DEF Local, Steps, Shape, OnlySwap, Cert
  <2>3. SwapInv(r, pem, pemBackup, spoiled)
    BY <1>0, <1>1 DEF Local, SwapInv, Undoable, Cert
  <2> HIDE DEF r
  <2> QED
    BY <1>0, <1>1, <1>2, <1>3, <2>1, <2>2, <2>3, Advance
<1>4. CASE /\ pemBackup' = [pemBackup EXCEPT ![clock] =
                [f \in Files |-> IF pem[f] = NoFile THEN @[f] ELSE pem[f]]]
           /\ req' = [req EXCEPT ![t].at = "chain", ![t].dir = clock]
           /\ spoiled' = (spoiled \/ Half(pem))
  <2> DEFINE r == [l EXCEPT !.at = "chain", !.dir = clock]
  <2>1. req' = [req EXCEPT ![t] = r]
    BY <1>4
  <2>2. r \in Local /\ Shape(r) /\ r.op = "swap" /\ r.at = "chain"
        /\ r.pemBefore = pem /\ r.dir = clock
    BY <1>0, <1>1 DEF Local, Steps, Shape, OnlySwap, Cert
  <2>3. \A f \in Files : pem[f] = NoFile => pemBackup[clock][f] = NoFile
    BY <1>1 DEF SwapsInv, Kept
  <2>4. pemBackup' = [pemBackup EXCEPT ![clock] = pem]
    <3>1. pem = [f \in Files |-> pem[f]]
      BY <1>1 DEF Pem
    <3>2. [f \in Files |-> IF pem[f] = NoFile THEN pemBackup[clock][f] ELSE pem[f]]
            = [f \in Files |-> pem[f]]
      BY <2>3
    <3> QED
      BY <1>4, <3>1, <3>2
  <2>5. /\ pemBackup'[clock] = pem
        /\ \A s \in Seconds : s # clock => pemBackup'[s] = pemBackup[s]
    BY <1>1, <2>4 DEF TypeOK
  <2>b. ~spoiled' => ~spoiled /\ ~Half(pem)
    BY <1>4
  <2> HIDE DEF r
  <2>6. SwapInv(r, pem', pemBackup', spoiled')
    BY <1>a, <1>2, <2>2, <2>5, <2>b DEF SwapInv, Undoable, Refused
  <2>7. Kept'
    BY <1>2, <2>5 DEF SwapsInv, Kept
  <2>8. ~spoiled' => Matching(pem')
    BY <1>a, <1>2, <2>b
  <2> QED
    BY <1>0, <2>1, <2>2, <2>6, <2>7, <2>8, FilesStep
<1> QED
  BY <1>3, <1>4 DEF Backup

\* What is read of a swap in the middle of its writes.
LEMMA WriterStands ==
  ASSUME TypeOK, SwapsInv, NEW t \in Requests, req[t].at \in Undoable, req[t].op = "swap"
  PROVE  /\ req[t] \in Local /\ Shape(req[t]) /\ SwapInv(req[t], pem, pemBackup, spoiled)
         /\ Cert(req[t]) \in Pairs /\ Cert(req[t]) # NoFile /\ Torn # NoFile
         /\ pem \in Pem /\ req[t].pemBefore \in Pem
         /\ pemBackup[req[t].dir] = req[t].pemBefore
         /\ ~spoiled => Matching(req[t].pemBefore) /\ ~Half(req[t].pemBefore)
<1>1. req[t] \in Local /\ Shape(req[t]) /\ SwapInv(req[t], pem, pemBackup, spoiled) /\ pem \in Pem
  BY DEF TypeOK, SwapsInv, ReqInv
<1>2. Cert(req[t]) \in Pairs /\ req[t].pemBefore \in Pem
  BY <1>1 DEF Shape, Local
<1>3. NoFile \notin Pairs /\ Torn # NoFile
  BY CertAssumption DEF Torn, NoFile
<1> QED
  BY <1>1, <1>2, <1>3 DEF SwapInv

LEMMA WriteStep ==
  ASSUME TypeOK, SwapsInv, NEW t \in Requests, WriteChain(t) \/ WriteKey(t)
  PROVE  SwapsInv'
<1> DEFINE l == req[t]
<1>0. l.op = "swap" /\ l.at \in Undoable
  BY DEF SwapsInv, ReqInv, WriteChain, WriteKey, At, Shape, OnlySwap, Undoable
<1>1. /\ l \in Local /\ Shape(l) /\ SwapInv(l, pem, pemBackup, spoiled)
      /\ Cert(l) \in Pairs /\ Cert(l) # NoFile /\ Torn # NoFile
      /\ pem \in Pem /\ l.pemBefore \in Pem /\ pemBackup[l.dir] = l.pemBefore
      /\ ~spoiled => Matching(l.pemBefore) /\ ~Half(l.pemBefore)
  BY <1>0, WriterStands
<1>2. PICK file \in Files, next \in {"key", "load"} :
        /\ \/ file = "fullchain" /\ next = "key" /\ l.at = "chain"
           \/ file = "privkey" /\ next = "load" /\ l.at = "key"
        /\ WriteFile(t, file, l.upload[file], next, "restore") /\ UNCHANGED <<spoiled, pemBackup>>
  BY DEF WriteChain, WriteKey, Upload, WriteFile, At, Files
<1>3. l.upload[file] = Cert(l)
  <2>1. l.upload = Holding(Cert(l))
    BY <1>0, <1>1 DEF Shape
  <2> QED
    BY <2>1 DEF Holding
<1>4. PICK c \in {Cert(l), Torn, pem[file]}, r \in {[l EXCEPT !.at = next], [l EXCEPT !.at = "restore"]} :
        /\ pem' = [pem EXCEPT ![file] = c] /\ req' = [req EXCEPT ![t] = r]
        /\ (r.at = next /\ c = Cert(l)) \/ r.at = "restore"
  <2>1. /\ ([l EXCEPT !.at = next]).at = next
        /\ ([l EXCEPT !.at = "restore"]).at = "restore"
        /\ pem = [pem EXCEPT ![file] = pem[file]]
    BY <1>1 DEF Local, Pem
  <2> QED
    BY <1>2, <1>3, <2>1 DEF WriteFile, Goto
<1>5. r \in Local /\ Shape(r) /\ r.op = "swap" /\ Cert(r) = Cert(l)
      /\ r.pemBefore = l.pemBefore /\ r.dir = l.dir
  BY <1>0, <1>1, <1>2, <1>4 DEF Local, Steps, Shape, OnlySwap, Cert
<1>6. \A f \in Files : pem'[f] = IF f = file THEN c ELSE pem[f]
  BY <1>1, <1>4 DEF Pem
<1>7. Kept'
  BY <1>1, <1>2, <1>4, <1>6 DEF SwapsInv, Kept
<1>8. Left(l, pem')
  <2>1. Left(l, pem)
    BY <1>0, <1>1, <1>2 DEF SwapInv, Left, Pem
  <2> QED
    BY <1>4, <1>6, <2>1 DEF Left
<1>9. CASE r.at = "restore"
  <2>1. Left(r, pem')
    BY <1>5, <1>8 DEF Left
  <2>2. SwapInv(r, pem', pemBackup', spoiled')
    BY <1>1, <1>2, <1>5, <1>9, <2>1 DEF SwapInv, Undoable, Refused
  <2> QED
    BY <1>0, <1>4, <1>5, <1>7, <1>9, <2>2, FilesStep
<1>10. CASE file = "fullchain" /\ r.at = "key" /\ c = Cert(l)
  <2>1. pem' = [r.pemBefore EXCEPT !["fullchain"] = Cert(r)]
    BY <1>0, <1>1, <1>2, <1>4, <1>5, <1>10 DEF SwapInv
  <2>2. SwapInv(r, pem', pemBackup', spoiled')
    BY <1>1, <1>2, <1>5, <1>10, <2>1 DEF SwapInv, Undoable, Refused
  <2> QED
    BY <1>0, <1>4, <1>5, <1>7, <1>10, <2>2, FilesStep
<1>11. CASE file = "privkey" /\ r.at = "load" /\ c = Cert(l)
  <2>1. pem = [l.pemBefore EXCEPT !["fullchain"] = Cert(l)]
    BY <1>0, <1>1, <1>2, <1>11 DEF SwapInv, Files
  <2>2. pem' = Holding(Cert(r))
    BY <1>1, <1>4, <1>5, <1>11, <2>1 DEF Holding, Pem, Files
  <2>3. SwapInv(r, pem', pemBackup', spoiled')
    BY <1>1, <1>2, <1>5, <1>11, <2>2 DEF SwapInv, Undoable, Refused
  <2>4. Matching(pem')
    BY <1>1, <1>5, <2>2, HoldingMatches
  <2> QED
    BY <1>0, <1>4, <1>5, <1>7, <2>3, <2>4, FilesStep
<1> QED
  BY <1>2, <1>4, <1>9, <1>10, <1>11 DEF Files

\* A file goes back, or was never there, or its write fails and ends the restore.
LEMMA RestoreStep ==
  ASSUME TypeOK, SwapsInv, NEW t \in Requests, Restore(t) \/ RestoreKey(t)
  PROVE  SwapsInv'
<1> DEFINE l == req[t]
           old == l.pemBefore
<1>0. l.op = "swap" /\ l.at \in Undoable
  BY DEF SwapsInv, ReqInv, Restore, RestoreKey, At, Shape, OnlySwap, Undoable
<1>1. /\ l \in Local /\ Shape(l) /\ SwapInv(l, pem, pemBackup, spoiled)
      /\ Cert(l) \in Pairs /\ Cert(l) # NoFile /\ Torn # NoFile
      /\ pem \in Pem /\ old \in Pem /\ pemBackup[l.dir] = old
      /\ ~spoiled => Matching(old) /\ ~Half(old)
  BY <1>0, WriterStands
<1>2. PICK file \in Files, next \in {"restoreKey", "restoreLoad"} :
        /\ \/ file = "fullchain" /\ next = "restoreKey" /\ l.at = "restore"
           \/ file = "privkey" /\ next = "restoreLoad" /\ l.at = "restoreKey"
        /\ RestoreFile(t, file, next)
  BY DEF Restore, RestoreKey, At, Files
<1>3. UNCHANGED pemBackup /\ Left(l, pem)
  BY <1>0, <1>1, <1>2 DEF RestoreFile, WriteFile, DiskUnchanged, SwapInv
<1>4. PICK step \in {next, "undo"}, c \in {old[file], Torn, pem[file]} :
        /\ pem' = [pem EXCEPT ![file] = c] /\ req' = [req EXCEPT ![t] = [l EXCEPT !.at = step]]
        /\ step = "undo" => spoiled' /\ old[file] # NoFile
        /\ step = next /\ spoiled => spoiled'
        /\ step = next => c = IF old[file] = NoFile THEN pem[file] ELSE old[file]
        /\ c = NoFile => pem[file] = NoFile
  <2>1. pem = [pem EXCEPT ![file] = pem[file]]
    BY <1>1 DEF Pem
  <2>2. CASE old[file] = NoFile
    BY <1>1, <1>2, <2>1, <2>2 DEF RestoreFile, Goto, DiskUnchanged
  <2>3. CASE old[file] # NoFile
    <3>1. /\ WriteFile(t, file, old[file], next, "undo")
          /\ spoiled' = (spoiled \/ req'[t].at = "undo")
      BY <1>1, <1>2, <2>3 DEF RestoreFile
    <3>2. \A step \in Steps : req' = [req EXCEPT ![t] = [l EXCEPT !.at = step]]
                                => req'[t].at = step
      BY <1>1 DEF TypeOK, Local
    <3>3. next \in Steps /\ "undo" \in Steps /\ next # "undo"
      BY <1>2 DEF Steps
    <3>4. CASE pem' = [pem EXCEPT ![file] = old[file]] /\ Goto(t, next)
      <4>1. req' = [req EXCEPT ![t] = [l EXCEPT !.at = next]]
        BY <3>4 DEF Goto
      <4>2. req'[t].at # "undo"
        BY <3>2, <3>3, <4>1
      <4> QED
        BY <2>3, <3>1, <3>3, <3>4, <4>1, <4>2
    <3>5. CASE pem' \in {pem, [pem EXCEPT ![file] = Torn]} /\ Goto(t, "undo")
      <4>1. req' = [req EXCEPT ![t] = [l EXCEPT !.at = "undo"]]
        BY <3>5 DEF Goto
      <4>2. spoiled'
        BY <3>1, <3>2, <3>3, <4>1
      <4> QED
        BY <1>1, <2>1, <2>3, <3>3, <3>5, <4>1, <4>2
    <3> QED
      BY <3>1, <3>4, <3>5 DEF WriteFile
  <2> QED
    BY <2>2, <2>3
<1> DEFINE r == [l EXCEPT !.at = step]
<1>5. r \in Local /\ Shape(r) /\ r.op = "swap" /\ Cert(r) = Cert(l)
      /\ r.pemBefore = old /\ r.dir = l.dir /\ r.at = step
  BY <1>0, <1>1, <1>2 DEF Local, Steps, Shape, OnlySwap, Cert
<1>a. req' = [req EXCEPT ![t] = r]
  BY <1>4
<1> HIDE DEF r
<1>6. \A f \in Files : pem'[f] = IF f = file THEN c ELSE pem[f]
  BY <1>1, <1>4 DEF Pem
<1>7. Kept'
  BY <1>3, <1>4, <1>6 DEF SwapsInv, Kept
<1>8. pem' \in Pem /\ Left(r, pem')
  <2>1. pem' \in Pem
    BY <1>1, <1>4 DEF Pem, Content
  <2> QED
    BY <1>3, <1>4, <1>5, <1>6, <2>1 DEF Left
<1>9. CASE step = "undo"
  <2>1. SwapInv(r, pem', pemBackup', spoiled')
    BY <1>4, <1>5, <1>9 DEF SwapInv, Undoable
  <2> QED
    BY <1>0, <1>a, <1>4, <1>5, <1>7, <1>9, <2>1, FilesStep
<1>10. CASE file = "fullchain" /\ step = next
  <2>1. step = "restoreKey"
    BY <1>2, <1>10
  <2>2. pem'["fullchain"] = old["fullchain"] \/ old["fullchain"] = NoFile
    BY <1>4, <1>6, <1>10, <1>2
  <2>3. SwapInv(r, pem', pemBackup', spoiled')
    BY <1>1, <1>2, <1>3, <1>4, <1>5, <1>8, <1>10, <2>1, <2>2 DEF SwapInv, Undoable, Refused
  <2> QED
    BY <1>0, <1>a, <1>5, <1>7, <2>1, <2>3, FilesStep
<1>11. CASE file = "privkey" /\ step = next
  <2>1. step = "restoreLoad"
    BY <1>2, <1>11
  <2>2. \A f \in Files : old[f] # NoFile => pem'[f] = old[f]
    <3>1. pem["fullchain"] = old["fullchain"] \/ old["fullchain"] = NoFile
      BY <1>0, <1>1, <1>2, <1>11 DEF SwapInv
    <3> QED
      BY <1>2, <1>4, <1>6, <1>11, <3>1 DEF Files
  <2>3. Whole(old) => pem' = old
    BY <1>1, <1>8, <2>2 DEF Whole, Pem
  <2>4. ~spoiled' => Matching(pem')
    <3>1. CASE spoiled
      BY <1>4, <2>1, <1>2, <3>1, <1>11
    <3>2. CASE ~spoiled /\ Whole(old)
      BY <1>1, <2>3, <3>2
    <3>3. CASE ~spoiled /\ ~Whole(old)
      <4>1. \A f \in Files : old[f] = NoFile
        BY <1>1, <3>3 DEF Whole, Half, Files
      <4> QED
        BY <1>1, <1>5, <1>8, <4>1, FirstIsSound
    <3> QED
      BY <3>1, <3>2, <3>3
  <2>5. SwapInv(r, pem', pemBackup', spoiled')
    BY <1>5, <2>1, <2>3 DEF SwapInv, Undoable
  <2> QED
    BY <1>0, <1>a, <1>5, <1>7, <2>4, <2>5, FilesStep
<1> QED
  BY <1>2, <1>4, <1>9, <1>10, <1>11 DEF Files

(***************************************************************************)
(* The invariant                                                           *)
(***************************************************************************)
LEMMA SwapsInit == Init => SwapsInv
<1> SUFFICES ASSUME Init PROVE SwapsInv
  OBVIOUS
<1>1. \A t \in Requests : req[t] = Idle
  BY DEF Init
<1>2. OneSwap /\ ReqInv
  <2>1. Shape(Idle) /\ SwapInv(Idle, pem, pemBackup, spoiled) /\ Idle.op # "swap"
    BY DEF Shape, SwapInv, Idle, OnlySwap
  <2> QED
    BY <1>1, <2>1 DEF OneSwap, ReqInv
<1>3. Kept
  BY DEF Init, Kept, Holding
<1>4. Matching(pem)
  <2>1. Matching(Holding(NoFile))
    BY CertAssumption DEF Matching, Holding, Files
  <2> QED
    BY <2>1, HoldingMatches DEF Init
<1> QED
  BY <1>2, <1>3, <1>4 DEF SwapsInv, PairMatches

LEMMA SwapsStep == IInv /\ [Next]_vars => SwapsInv'
<1> SUFFICES ASSUME IInv, [Next]_vars PROVE SwapsInv'
  OBVIOUS
<1>0. TypeOK /\ SwapsInv
  BY DEF IInv
<1>1. ASSUME NEW t \in Requests, Step(t) PROVE SwapsInv'
  BY <1>0, <1>1, Arrive, QuietStep, RerenderStep, BackupStep, WriteStep, RestoreStep DEF Step
<1>2. CASE UNCHANGED <<pem, pemBackup, req, spoiled>>
  BY <1>0, <1>2 DEF SwapsInv, OneSwap, Kept, PairMatches, Matching, ReqInv
<1> QED
  BY <1>1, <1>2 DEF Next, ReloadButton, CaddyRestart, Tick, DiskUnchanged, vars

LEMMA Inductive == Spec => []IInv
<1>1. Init => IInv
  BY TypeInit, SwapsInit DEF IInv
<1>2. IInv /\ [Next]_vars => IInv'
  BY TypeStep, SwapsStep DEF IInv
<1> QED
  BY <1>1, <1>2, PTL DEF Spec

\* The private key on disk fits the certificate whenever no swap is half way.
THEOREM DiskHoldsPair == Spec => []PairMatches
<1>1. IInv => PairMatches
  BY DEF IInv, SwapsInv
<1> QED
  BY <1>1, Inductive, PTL

\* A refused swap has put back the certificate and the key it found.
THEOREM SwapRollsBack == Spec => []RefusedSwapRestores
<1>1. IInv => RefusedSwapRestores
  BY DEF IInv, SwapsInv, ReqInv, SwapInv, Refused, Whole, RefusedSwapRestores, Done, At
<1> QED
  BY <1>1, Inductive, PTL

(***************************************************************************)
(* The Caddyfile of a request that runs alone                              *)
(***************************************************************************)
\* A step of a thread in flight: any other thread is not alone.
LEMMA ConfMove ==
  ASSUME TypeOK, ConfInv, NEW t \in Requests, NEW r \in Local,
         req[t].at # "idle", req' = [req EXCEPT ![t] = r],
         r.alone => req[t].alone /\ ConfFor(r, caddyfile', confBackup')
  PROVE  ConfInv'
<1>1. \A u \in Requests : req'[u] = IF u = t THEN r ELSE req[u]
  BY DEF TypeOK
<1>2. \A u \in Requests : u # t => ~req[u].alone
  BY DEF ConfInv
<1> QED
  BY <1>1, <1>2 DEF ConfInv

LEMMA ConfRequest ==
  ASSUME TypeOK, ConfInv, NEW t \in Requests, Step(t)
  PROVE  ConfInv'
<1> DEFINE l == req[t]
<1>0. /\ l \in Local /\ \A u \in Requests : req[u] \in Local
      /\ l.alone => ConfFor(l, caddyfile, confBackup)
      /\ clock \in Seconds
  BY DEF TypeOK, ConfInv
<1>1. CASE StartSwap(t) \/ StartSwitch(t)
  <2>1. PICK r : /\ req' = [u \in Requests |-> IF u = t THEN r ELSE [req[u] EXCEPT !.alone = FALSE]]
                 /\ r.alone = (\A u \in Requests : req[u].at = "idle")
                 /\ r.at \in {"render", "write"} /\ r.confBefore = caddyfile
    <3> DEFINE quiet == \A u \in Requests : req[u].at = "idle"
    <3>1. CASE StartSwap(t)
      <4>1. PICK files \in [Files -> Pairs], host \in Hosts :
              req' = [u \in Requests |-> IF u = t
                       THEN [[Fresh EXCEPT !.op = "swap", !.upload = files, !.host = host,
                               !.conf = _render_caddyfile("files", DefaultHost)]
                             EXCEPT !.alone = quiet]
                       ELSE [req[u] EXCEPT !.alone = FALSE]]
        BY <3>1 DEF StartSwap, Enter
      <4> DEFINE new == [[Fresh EXCEPT !.op = "swap", !.upload = files, !.host = host,
                               !.conf = _render_caddyfile("files", DefaultHost)]
                         EXCEPT !.alone = quiet]
      <4>2. new.alone = quiet /\ new.at = "write" /\ new.confBefore = caddyfile
        BY DEF Fresh, Idle
      <4>3. req' = [u \in Requests |-> IF u = t THEN new ELSE [req[u] EXCEPT !.alone = FALSE]]
        BY <4>1
      <4> HIDE DEF new
      <4> QED
        BY <4>2, <4>3
    <3>2. CASE StartSwitch(t)
      <4>1. PICK host \in Hosts :
              req' = [u \in Requests |-> IF u = t
                       THEN [[Fresh EXCEPT !.op = "switch", !.host = host, !.at = "render"]
                             EXCEPT !.alone = quiet]
                       ELSE [req[u] EXCEPT !.alone = FALSE]]
        BY <3>2 DEF StartSwitch, Enter
      <4> DEFINE new == [[Fresh EXCEPT !.op = "switch", !.host = host, !.at = "render"]
                         EXCEPT !.alone = quiet]
      <4>2. new.alone = quiet /\ new.at = "render" /\ new.confBefore = caddyfile
        BY DEF Fresh, Idle
      <4>3. req' = [u \in Requests |-> IF u = t THEN new ELSE [req[u] EXCEPT !.alone = FALSE]]
        BY <4>1
      <4> HIDE DEF new
      <4> QED
        BY <4>2, <4>3
    <3> QED
      BY <1>1, <3>1, <3>2
  <2>2. UNCHANGED caddyfile
    BY <1>1 DEF StartSwap, StartSwitch, Enter
  <2>3. \A u \in Requests : u # t => ~req'[u].alone /\ req'[u].at = req[u].at
    BY <1>0, <2>1 DEF Local
  <2>4. req'[t] = r
    BY <2>1
  <2>5. ConfFor(r, caddyfile', confBackup')
    BY <2>1, <2>2 DEF ConfFor, Refused
  <2> QED
    BY <2>1, <2>3, <2>4, <2>5 DEF ConfInv
<1>2. CASE Write(t)
  <2> DEFINE r == [l EXCEPT !.at = ForOp(t, "backup", "load"), !.bak = clock]
  <2>1. /\ req' = [req EXCEPT ![t] = r] /\ l.at = "write"
        /\ confBackup' = [confBackup EXCEPT ![clock] = caddyfile]
    BY <1>2 DEF Write, _write_caddyfile_with_backup, At
  <2>2. confBackup'[clock] = caddyfile
    BY <1>0, <2>1 DEF TypeOK
  <2>3. r \in Local /\ r.at \in {"backup", "load"} /\ r.bak = clock
        /\ r.alone = l.alone /\ r.confBefore = l.confBefore
    BY <1>0 DEF Local, Steps, ForOp
  <2> HIDE DEF r
  <2>4. r.alone => ConfFor(r, caddyfile', confBackup')
    BY <1>0, <2>1, <2>2, <2>3 DEF ConfFor, Refused
  <2> QED
    BY <2>1, <2>3, <2>4, ConfMove
<1>3. CASE Undo(t)
  <2> DEFINE r == [l EXCEPT !.at = "undoLoad"]
  <2>1. /\ req' = [req EXCEPT ![t] = r] /\ l.at = "undo"
        /\ caddyfile' = confBackup[l.bak]
    BY <1>3 DEF Undo, Goto, At
  <2>2. r \in Local /\ r.at = "undoLoad" /\ r.alone = l.alone /\ r.confBefore = l.confBefore
    BY <1>0 DEF Local, Steps
  <2> HIDE DEF r
  <2>3. r.alone => ConfFor(r, caddyfile', confBackup')
    BY <1>0, <2>1, <2>2 DEF ConfFor
  <2> QED
    BY <2>1, <2>2, <2>3, ConfMove
<1>4. CASE Rerender(t)
  <2> DEFINE r == [l EXCEPT !.at = "reload"]
  <2>1. req' = [req EXCEPT ![t] = r] /\ l.at = "rerender"
    BY <1>4 DEF Rerender, Goto, At
  <2>2. r \in Local /\ r.at = "reload" /\ r.alone = l.alone
    BY <1>0 DEF Local, Steps
  <2> HIDE DEF r
  <2>3. ConfFor(r, caddyfile', confBackup')
    BY <2>2 DEF ConfFor, Refused
  <2> QED
    BY <2>1, <2>2, <2>3, ConfMove
<1>5. CASE Render(t)
  <2> DEFINE conf == _render_caddyfile("internal", l.host)
             r == [l EXCEPT !.at = "write", !.conf = conf]
  <2>1. req' = [req EXCEPT ![t] = r] /\ l.at = "render" /\ UNCHANGED caddyfile
    BY <1>5 DEF Render, At
  <2>2. conf \in Conf
    BY <1>0, RenderType DEF Local
  <2> HIDE DEF conf
  <2>3. r \in Local /\ r.at = "write" /\ r.alone = l.alone /\ r.confBefore = l.confBefore
    BY <1>0, <2>2 DEF Local, Steps
  <2> HIDE DEF r
  <2>4. r.alone => ConfFor(r, caddyfile', confBackup')
    BY <1>0, <2>1, <2>3 DEF ConfFor, Refused
  <2> QED
    BY <2>1, <2>3, <2>4, ConfMove
<1>6. CASE \/ Backup(t) \/ WriteChain(t) \/ WriteKey(t) \/ Load(t) \/ Probe(t)
           \/ Restore(t) \/ RestoreKey(t) \/ RestoreLoad(t)
  \* Between the backup and the undo nothing but the place changes.
  <2> DEFINE Middle == {"backup", "chain", "key", "load", "probe", "restore", "restoreKey", "restoreLoad"}
             After == {"chain", "key", "load", "probe", "restore", "restoreKey", "restoreLoad",
                       "undo", "rerender"}
  <2>1. UNCHANGED <<caddyfile, confBackup>> /\ l.at \in Middle
    BY <1>6 DEF Backup, WriteChain, WriteKey, Upload, WriteFile, Load, Probe, Restore, RestoreKey,
                RestoreFile, RestoreLoad, DiskUnchanged, At
  <2>2. PICK step \in After, answer \in {"ok", "error"}, clean \in BOOLEAN :
          \/ req' = [req EXCEPT ![t].at = step]
          \/ req' = [req EXCEPT ![t].at = step, ![t].dir = clock]
          \/ req' = [req EXCEPT ![t].at = "done", ![t].answer = answer]
          \/ req' = [req EXCEPT ![t].at = "done", ![t].answer = answer, ![t].clean = clean]
    <3>1. CASE Backup(t)
      BY <3>1 DEF Backup, Goto
    <3>2. CASE WriteChain(t) \/ WriteKey(t)
      BY <3>2 DEF WriteChain, WriteKey, Upload, WriteFile, Goto
    <3>3. CASE Load(t)
      BY <3>3 DEF Load, LoadAnswers, Goto, Answer, ForOp
    <3>4. CASE Probe(t)
      BY <3>4 DEF Probe, Goto, ForOp
    <3>5. CASE Restore(t) \/ RestoreKey(t) \/ RestoreLoad(t)
      BY <3>5 DEF Restore, RestoreKey, RestoreFile, WriteFile, RestoreLoad, Goto
    <3> QED
      BY <1>6, <3>1, <3>2, <3>3, <3>4, <3>5
  <2>3. PICK r \in {[l EXCEPT !.at = step], [l EXCEPT !.at = step, !.dir = clock],
                    [l EXCEPT !.at = "done", !.answer = answer],
                    [l EXCEPT !.at = "done", !.answer = answer, !.clean = clean]} :
          req' = [req EXCEPT ![t] = r]
    BY <2>2
  <2>4. /\ r \in Local /\ r.alone = l.alone /\ r.bak = l.bak /\ r.confBefore = l.confBefore
        /\ r.at \in After \/ (r.at = "done" /\ r.answer \in {"ok", "error"})
    <3>1. CASE r = [l EXCEPT !.at = step]
      BY <1>0, <3>1 DEF Local, Steps
    <3>2. CASE r = [l EXCEPT !.at = step, !.dir = clock]
      BY <1>0, <3>2 DEF Local, Steps
    <3>3. CASE r = [l EXCEPT !.at = "done", !.answer = answer]
      BY <1>0, <3>3 DEF Local, Steps
    <3>4. CASE r = [l EXCEPT !.at = "done", !.answer = answer, !.clean = clean]
      BY <1>0, <3>4 DEF Local, Steps
    <3> QED
      BY <2>3, <3>1, <3>2, <3>3, <3>4
  <2>5. r.alone => ConfFor(r, caddyfile', confBackup')
    BY <1>0, <2>1, <2>4 DEF ConfFor, Refused
  <2> QED
    BY <2>1, <2>3, <2>4, <2>5, ConfMove
<1>7. CASE UndoLoad(t)
  <2> DEFINE r == [l EXCEPT !.at = "done", !.answer = "refused"]
  <2>1. req' = [req EXCEPT ![t] = r] /\ l.at = "undoLoad" /\ UNCHANGED caddyfile
    BY <1>7 DEF UndoLoad, Answer, At, DiskUnchanged
  <2>2. r \in Local /\ r.at = "done" /\ r.alone = l.alone /\ r.confBefore = l.confBefore
    BY <1>0 DEF Local, Steps
  <2> HIDE DEF r
  <2>3. r.alone => ConfFor(r, caddyfile', confBackup')
    BY <1>0, <2>1, <2>2 DEF ConfFor
  <2> QED
    BY <2>1, <2>2, <2>3, ConfMove
<1>8. CASE Reload(t)
  <2>1. PICK clean \in BOOLEAN :
          req' = [req EXCEPT ![t].at = "done", ![t].answer = "ok", ![t].clean = clean]
    BY <1>8 DEF Reload
  <2> DEFINE r == [l EXCEPT !.at = "done", !.answer = "ok", !.clean = clean]
  <2>2. req' = [req EXCEPT ![t] = r] /\ l.at = "reload"
    BY <1>8, <2>1 DEF Reload, At
  <2>3. r \in Local /\ r.at = "done" /\ r.answer = "ok" /\ r.alone = l.alone
    BY <1>0 DEF Local, Steps
  <2> HIDE DEF r
  <2>4. ConfFor(r, caddyfile', confBackup')
    BY <2>3 DEF ConfFor, Refused
  <2> QED
    BY <2>2, <2>3, <2>4, ConfMove
<1>9. CASE Finish(t)
  <2>1. req' = [req EXCEPT ![t] = Idle] /\ l.at = "done" /\ Idle.alone = FALSE
    BY <1>9 DEF Finish, At, Idle
  <2> QED
    BY <2>1, IdleIsLocal, ConfMove
<1> QED
  BY <1>1, <1>2, <1>3, <1>4, <1>5, <1>6, <1>7, <1>8, <1>9 DEF Step

\* A refused request that nothing overlapped has put back the Caddyfile.
THEOREM RefusalRollsBack == Spec => []RefusalRestoresConf
<1>1. Init => TypeOK /\ ConfInv
  <2>1. Idle.alone = FALSE
    BY DEF Idle
  <2> QED
    BY <2>1, TypeInit DEF Init, ConfInv
<1>2. TypeOK /\ ConfInv /\ [Next]_vars => TypeOK' /\ ConfInv'
  <2> SUFFICES ASSUME TypeOK, ConfInv, [Next]_vars PROVE ConfInv'
    BY TypeStep
  <2>1. ASSUME NEW t \in Requests, Step(t) PROVE ConfInv'
    BY <2>1, ConfRequest
  <2>2. CASE UNCHANGED <<caddyfile, confBackup, req>>
    BY <2>2 DEF ConfInv
  <2> QED
    BY <2>1, <2>2 DEF Next, ReloadButton, CaddyRestart, Tick, DiskUnchanged, vars
<1>3. ConfInv => RefusalRestoresConf
  BY DEF ConfInv, ConfFor, Refused, RefusalRestoresConf, Done, At
<1> QED
  BY <1>1, <1>2, <1>3, PTL DEF Spec

(***************************************************************************)
(* What an accepted request leaves running                                 *)
(***************************************************************************)
Old(r) == r.pemBefore["fullchain"]
Okay(r) == r.at = "done" /\ r.answer = "ok"

\* The marker of the Caddyfile tells the old certificate from the new one: a
\* swap that ran alone writes the old marker first, Caddy takes it, and what
\* it writes last is a Caddyfile that Caddy can only run since the new files
\* are there.
SwapLive(r, conf, files, c) ==
  /\ r.at = "write" => r.conf.marker = Old(r)
  /\ r.at \in {"backup", "chain", "key", "load", "probe", "rerender"} => conf.marker = Old(r)
  /\ r.at \in {"probe", "rerender"} => c.conf = conf
  /\ r.at = "reload" => conf.tls = "files" /\ conf.marker = Cert(r)
  /\ Okay(r) => files = Holding(Cert(r)) /\ conf.tls = "files"
  /\ Okay(r) /\ r.clean /\ Cert(r) # Old(r) => c.up /\ c.conf = conf
  /\ Cert(r) # Old(r) /\ (r.at = "reload" \/ (Okay(r) /\ r.clean)) /\ c.conf = conf
       => Accepts(conf, files) /\ c.cert = Cert(r)

SwitchLive(r, conf, c) ==
  /\ r.at = "write" => r.conf.tls = "internal"
  /\ r.at \in {"load", "probe"} \/ Okay(r) => conf.tls = "internal"
  /\ r.at = "probe" \/ Okay(r) => c.conf = conf
  /\ Okay(r) => c.up

Lives(r, conf, files, c) ==
  /\ r.op = "swap" => SwapLive(r, conf, files, c)
  /\ r.op = "switch" => SwitchLive(r, conf, c)

\* Caddy runs only what it could load.
Loaded(c) == c.conf.host \notin BadHosts /\ (c.conf.tls = "internal" => c.cert = Internal)

LiveInv ==
  /\ Loaded(caddy)
  /\ \A t \in Requests : req[t].alone =>
       /\ \A u \in Requests : u # t => req[u].at = "idle"
       /\ Lives(req[t], caddyfile, pem, caddy)

\* What a load or a restart makes of Caddy.
CaddyMoves ==
  \/ UNCHANGED caddy
  \/ Accepts(caddyfile, pem) /\ caddy' = Running(caddyfile, pem)
  \/ ~Accepts(caddyfile, pem) /\ caddy' = [caddy EXCEPT !.up = FALSE]

LEMMA LoadMoves ==
  ASSUME NEW a \in LoadAnswers, reload_proxy(a)
  PROVE  /\ UNCHANGED caddy \/ (Accepts(caddyfile, pem) /\ caddy' = Running(caddyfile, pem))
         /\ a = "ok" => caddy'.conf = caddyfile /\ caddy'.up
<1>1. Takes => /\ UNCHANGED caddy \/ (Accepts(caddyfile, pem) /\ caddy' = Running(caddyfile, pem))
               /\ caddy.up => caddy'.conf = caddyfile /\ caddy'.up
  <2>1. Running(caddyfile, pem).up /\ Running(caddyfile, pem).conf = caddyfile
    BY DEF Running
  <2> QED
    BY <2>1 DEF Takes
<1>2. CASE a = "ok" BY <1>1, <1>2 DEF reload_proxy
<1>3. CASE a # "ok" BY <1>1, <1>3 DEF reload_proxy, LoadAnswers
<1> QED
  BY <1>2, <1>3

LEMMA StaysLoaded ==
  ASSUME TypeOK, Loaded(caddy), CaddyMoves
  PROVE  Loaded(caddy')
<1>1. CASE UNCHANGED caddy BY <1>1 DEF Loaded
<1>2. CASE Accepts(caddyfile, pem) /\ caddy' = Running(caddyfile, pem)
  BY <1>2 DEF Loaded, Accepts, Running
<1>3. CASE caddy' = [caddy EXCEPT !.up = FALSE]
  BY <1>3 DEF Loaded, TypeOK, Process
<1> QED
  BY <1>1, <1>2, <1>3 DEF CaddyMoves

\* Whatever loads or restarts come in between, a request keeps what it has.
LEMMA LivesOn ==
  ASSUME TypeOK, Loaded(caddy), CaddyMoves, NEW r \in Local, Shape(r),
         SwapInv(r, pem, pemBackup, spoiled), Lives(r, caddyfile, pem, caddy)
  PROVE  Lives(r, caddyfile, pem, caddy')
<1>1. CASE UNCHANGED caddy BY <1>1
<1>2. CASE Accepts(caddyfile, pem) /\ caddy' = Running(caddyfile, pem)
  <2>1. caddy'.up /\ caddy'.conf = caddyfile
    BY <1>2 DEF Running
  <2>2. caddyfile.tls = "files" => caddy'.cert = pem["fullchain"]
    BY <1>2 DEF Running
  <2>3. r.op = "swap" => SwapLive(r, caddyfile, pem, caddy')
    <3> SUFFICES ASSUME r.op = "swap" PROVE SwapLive(r, caddyfile, pem, caddy')
      OBVIOUS
    <3>1. SwapLive(r, caddyfile, pem, caddy)
      BY DEF Lives
    <3>2. r.at = "reload" \/ Okay(r) => pem = Holding(Cert(r)) /\ caddyfile.tls = "files"
      BY <3>1 DEF SwapInv, SwapLive
    <3>3. r.at = "reload" \/ Okay(r) => caddy'.cert = Cert(r)
      BY <2>2, <3>2 DEF Holding, Files
    <3> QED
      BY <1>2, <2>1, <3>1, <3>3 DEF SwapLive
  <2>4. r.op = "switch" => SwitchLive(r, caddyfile, caddy')
    BY <2>1 DEF Lives, SwitchLive
  <2> QED
    BY <2>3, <2>4 DEF Lives
<1>3. CASE ~Accepts(caddyfile, pem) /\ caddy' = [caddy EXCEPT !.up = FALSE]
  <2>1. caddy'.conf = caddy.conf /\ caddy'.cert = caddy.cert
    BY <1>3 DEF TypeOK, Process
  <2>2. r.op = "swap" => SwapLive(r, caddyfile, pem, caddy')
    BY <1>3, <2>1 DEF Lives, SwapLive
  <2>3. r.op = "switch" => ~Okay(r)
    <3> SUFFICES ASSUME r.op = "switch", Okay(r) PROVE FALSE
      OBVIOUS
    <3>1. caddyfile.tls = "internal" /\ caddyfile.host \notin BadHosts
      BY DEF Lives, SwitchLive, Loaded
    <3> QED
      BY <1>3, <3>1 DEF Accepts
  <2>4. r.op = "switch" => SwitchLive(r, caddyfile, caddy')
    BY <2>1, <2>3 DEF Lives, SwitchLive
  <2> QED
    BY <2>2, <2>4 DEF Lives
<1> QED
  BY <1>1, <1>2, <1>3 DEF CaddyMoves

\* A step of a thread in flight: any other thread is not alone.
LEMMA LiveMove ==
  ASSUME TypeOK, LiveInv, Loaded(caddy'), NEW t \in Requests, NEW r,
         req[t].at # "idle", req' = [req EXCEPT ![t] = r],
         r.alone => req[t].alone /\ Lives(r, caddyfile', pem', caddy')
  PROVE  LiveInv'
<1>1. \A u \in Requests : req'[u] = IF u = t THEN r ELSE req[u]
  BY DEF TypeOK
<1>2. \A u \in Requests : u # t => ~req[u].alone
  BY DEF LiveInv
<1>3. ASSUME NEW u \in Requests, req'[u].alone
      PROVE  /\ \A v \in Requests : v # u => req'[v].at = "idle"
             /\ Lives(req'[u], caddyfile', pem', caddy')
  BY <1>1, <1>2, <1>3 DEF LiveInv
<1>4. LiveInv' = (/\ Loaded(caddy')
                  /\ \A u \in Requests : req'[u].alone =>
                       /\ \A v \in Requests : v # u => req'[v].at = "idle"
                       /\ Lives(req'[u], caddyfile', pem', caddy'))
  BY DEF LiveInv, Lives, SwapLive, SwitchLive, Loaded, Okay, Cert, Old, Accepts
<1> QED
  BY <1>3, <1>4

LEMMA LiveArrives ==
  ASSUME TypeOK, LiveInv, NEW t \in Requests, StartSwap(t) \/ StartSwitch(t)
  PROVE  LiveInv'
<1> DEFINE quiet == \A u \in Requests : req[u].at = "idle"
<1>1. PICK r : /\ req' = [u \in Requests |-> IF u = t THEN r ELSE [req[u] EXCEPT !.alone = FALSE]]
               /\ r.alone = quiet
               /\ \/ r.op = "swap" /\ r.at = "write" /\ r.conf.marker = r.pemBefore["fullchain"]
                  \/ r.op = "switch" /\ r.at = "render"
  <2>1. CASE StartSwap(t)
    <3>1. PICK files \in [Files -> Pairs], host \in Hosts :
            req' = [u \in Requests |-> IF u = t
                     THEN [[Fresh EXCEPT !.op = "swap", !.upload = files, !.host = host,
                             !.conf = _render_caddyfile("files", DefaultHost)]
                           EXCEPT !.alone = quiet]
                     ELSE [req[u] EXCEPT !.alone = FALSE]]
      BY <2>1 DEF StartSwap, Enter
    <3> DEFINE new == [[Fresh EXCEPT !.op = "swap", !.upload = files, !.host = host,
                             !.conf = _render_caddyfile("files", DefaultHost)]
                       EXCEPT !.alone = quiet]
    <3>2. /\ new.alone = quiet /\ new.at = "write" /\ new.op = "swap"
          /\ new.conf = _render_caddyfile("files", DefaultHost) /\ new.pemBefore = pem
      BY DEF Fresh, Idle
    <3>3. new.conf.marker = new.pemBefore["fullchain"]
      <4> HIDE DEF new
      <4> QED
        BY <3>2 DEF _render_caddyfile
    <3>4. req' = [u \in Requests |-> IF u = t THEN new ELSE [req[u] EXCEPT !.alone = FALSE]]
      BY <3>1
    <3> HIDE DEF new
    <3> QED
      BY <3>2, <3>3, <3>4
  <2>2. CASE StartSwitch(t)
    <3>1. PICK host \in Hosts :
            req' = [u \in Requests |-> IF u = t
                     THEN [[Fresh EXCEPT !.op = "switch", !.host = host, !.at = "render"]
                           EXCEPT !.alone = quiet]
                     ELSE [req[u] EXCEPT !.alone = FALSE]]
      BY <2>2 DEF StartSwitch, Enter
    <3> DEFINE new == [[Fresh EXCEPT !.op = "switch", !.host = host, !.at = "render"]
                       EXCEPT !.alone = quiet]
    <3>2. new.alone = quiet /\ new.at = "render" /\ new.op = "switch"
      BY DEF Fresh, Idle
    <3>3. req' = [u \in Requests |-> IF u = t THEN new ELSE [req[u] EXCEPT !.alone = FALSE]]
      BY <3>1
    <3> HIDE DEF new
    <3> QED
      BY <3>2, <3>3
  <2> QED
    BY <2>1, <2>2
<1>2. UNCHANGED <<caddyfile, pem, caddy>>
  BY DEF StartSwap, StartSwitch, Enter
<1>3. \A u \in Requests : u # t => ~req'[u].alone /\ req'[u].at = req[u].at
  BY <1>1 DEF TypeOK, Local
<1>4. req'[t] = r
  BY <1>1
<1>5. Lives(r, caddyfile', pem', caddy')
  BY <1>1 DEF Lives, SwapLive, SwitchLive, Okay, Old
<1>6. Loaded(caddy')
  BY <1>2 DEF LiveInv, Loaded
<1>7. ASSUME NEW u \in Requests, req'[u].alone
      PROVE  /\ \A v \in Requests : v # u => req'[v].at = "idle"
             /\ Lives(req'[u], caddyfile', pem', caddy')
  <2>1. u = t /\ quiet
    BY <1>1, <1>3, <1>4, <1>7
  <2> QED
    BY <1>3, <1>4, <1>5, <2>1
<1>8. LiveInv' = (/\ Loaded(caddy')
                  /\ \A u \in Requests : req'[u].alone =>
                       /\ \A v \in Requests : v # u => req'[v].at = "idle"
                       /\ Lives(req'[u], caddyfile', pem', caddy'))
  BY DEF LiveInv, Lives, SwapLive, SwitchLive, Loaded, Okay, Cert, Old, Accepts
<1> QED
  BY <1>6, <1>7, <1>8

\* The new place of a thread, and what of it a step leaves alone.
Moved(l, r) == r.op = l.op /\ r.upload = l.upload /\ r.pemBefore = l.pemBefore /\ r.alone = l.alone

LEMMA LiveRequest ==
  ASSUME IInv, LiveInv, NEW t \in Requests, Step(t)
  PROVE  LiveInv'
<1> DEFINE l == req[t]
<1>0. /\ TypeOK /\ l \in Local /\ Shape(l) /\ SwapInv(l, pem, pemBackup, spoiled)
      /\ l.alone => Lives(l, caddyfile, pem, caddy)
      /\ Loaded(caddy)
  BY DEF IInv, TypeOK, SwapsInv, ReqInv, LiveInv
<1>1. CASE StartSwap(t) \/ StartSwitch(t)
  BY <1>0, <1>1, LiveArrives
<1>2. CASE Render(t)
  <2> DEFINE conf == _render_caddyfile("internal", l.host)
             r == [l EXCEPT !.at = "write", !.conf = conf]
  <2>1. /\ req' = [req EXCEPT ![t] = r] /\ l.at = "render"
        /\ UNCHANGED <<caddyfile, pem, caddy>>
    BY <1>2 DEF Render, At
  <2>2. conf.tls = "internal"
    BY DEF _render_caddyfile
  <2> HIDE DEF conf
  <2>3. r.at = "write" /\ r.conf = conf /\ Moved(l, r)
    BY <1>0 DEF Local, Moved
  <2>4. r.op = "switch"
    BY <1>0, <2>1, <2>3 DEF Shape, Moved
  <2> HIDE DEF r
  <2>5. Lives(r, caddyfile', pem', caddy')
    BY <2>2, <2>3, <2>4 DEF Lives, SwitchLive, Okay
  <2>6. Loaded(caddy')
    BY <1>0, <2>1 DEF Loaded
  <2> QED
    BY <1>0, <2>1, <2>3, <2>5, <2>6, LiveMove DEF Moved
<1>3. CASE Write(t)
  <2> DEFINE r == [l EXCEPT !.at = ForOp(t, "backup", "load"), !.bak = clock]
  <2>1. /\ req' = [req EXCEPT ![t] = r] /\ l.at = "write"
        /\ caddyfile' = l.conf /\ UNCHANGED <<pem, caddy>>
    BY <1>3 DEF Write, _write_caddyfile_with_backup, At
  <2>2. /\ r.at = (IF l.op = "swap" THEN "backup" ELSE "load")
        /\ Moved(l, r)
    BY <1>0 DEF Local, Moved, ForOp
  <2> HIDE DEF r
  <2>3. r.alone => Lives(r, caddyfile', pem', caddy')
    BY <1>0, <2>1, <2>2 DEF Moved, Lives, SwapLive, SwitchLive, Okay, Old, Cert
  <2>4. Loaded(caddy')
    BY <1>0, <2>1 DEF Loaded
  <2> QED
    BY <1>0, <2>1, <2>2, <2>3, <2>4, LiveMove DEF Moved
<1>4. CASE Backup(t) \/ WriteChain(t) \/ WriteKey(t)
  <2> DEFINE After == {"chain", "key", "load", "undo", "restore"}
  <2>1. /\ l.at \in {"backup", "chain", "key"} /\ UNCHANGED <<caddyfile, caddy>>
    BY <1>4 DEF Backup, WriteChain, WriteKey, Upload, WriteFile, At
  <2>2. PICK step \in After :
          \/ req' = [req EXCEPT ![t].at = step]
          \/ req' = [req EXCEPT ![t].at = step, ![t].dir = clock]
    BY <1>4 DEF Backup, WriteChain, WriteKey, Upload, WriteFile, Goto
  <2>3. PICK r \in {[l EXCEPT !.at = step], [l EXCEPT !.at = step, !.dir = clock]} :
          req' = [req EXCEPT ![t] = r]
    BY <2>2
  <2>4. r.at \in After /\ Moved(l, r)
    BY <1>0, <2>3 DEF Local, Moved
  <2>5. l.op = "swap"
    BY <1>0, <2>1 DEF Shape, OnlySwap
  <2>6. r.alone => Lives(r, caddyfile', pem', caddy')
    BY <1>0, <2>1, <2>4, <2>5 DEF Moved, Lives, SwapLive, Okay, Old, Cert
  <2>7. Loaded(caddy')
    BY <1>0, <2>1 DEF Loaded
  <2> QED
    BY <1>0, <2>1, <2>3, <2>4, <2>6, <2>7, LiveMove DEF Moved
<1>5. CASE Load(t)
  <2>1. PICK a \in LoadAnswers :
          /\ reload_proxy(a)
          /\ CASE a = "ok"      -> Goto(t, "probe")
               [] a = "timeout" -> Answer(t, "error")
               [] OTHER         -> Goto(t, ForOp(t, "restore", "undo"))
    BY <1>5 DEF Load
  <2>2. l.at = "load" /\ UNCHANGED <<caddyfile, pem, pemBackup>>
    BY <1>5 DEF Load, At, DiskUnchanged
  <2>3. CaddyMoves /\ (a = "ok" => caddy'.conf = caddyfile)
    BY <2>1, LoadMoves DEF CaddyMoves
  <2>4. Loaded(caddy')
    BY <1>0, <2>3, StaysLoaded
  <2>5. CASE a = "ok"
    <3> DEFINE r == [l EXCEPT !.at = "probe"]
    <3>1. req' = [req EXCEPT ![t] = r]
      BY <2>1, <2>5 DEF Goto
    <3>2. r.at = "probe" /\ Moved(l, r)
      BY <1>0 DEF Local, Moved
    <3> HIDE DEF r
    <3>3. r.alone => Lives(r, caddyfile', pem', caddy')
      BY <1>0, <2>2, <2>3, <2>5, <3>2 DEF Moved, Lives, SwapLive, SwitchLive, Okay, Old, Cert
    <3> QED
      BY <1>0, <2>2, <2>4, <3>1, <3>2, <3>3, LiveMove DEF Moved
  <2>6. CASE a = "timeout"
    <3> DEFINE r == [l EXCEPT !.at = "done", !.answer = "error"]
    <3>1. req' = [req EXCEPT ![t] = r]
      BY <2>1, <2>6 DEF Answer
    <3>2. r.at = "done" /\ r.answer = "error" /\ Moved(l, r)
      BY <1>0 DEF Local, Moved
    <3> HIDE DEF r
    <3>3. Lives(r, caddyfile', pem', caddy')
      BY <3>2 DEF Lives, SwapLive, SwitchLive, Okay
    <3> QED
      BY <1>0, <2>2, <2>4, <3>1, <3>2, <3>3, LiveMove DEF Moved
  <2>7. CASE a \notin {"ok", "timeout"}
    <3> DEFINE r == [l EXCEPT !.at = ForOp(t, "restore", "undo")]
    <3>1. req' = [req EXCEPT ![t] = r]
      BY <2>1, <2>7 DEF Goto
    <3>2. r.at \in {"restore", "undo"} /\ Moved(l, r)
      BY <1>0 DEF Local, Moved, ForOp
    <3> HIDE DEF r
    <3>3. Lives(r, caddyfile', pem', caddy')
      BY <3>2 DEF Lives, SwapLive, SwitchLive, Okay
    <3> QED
      BY <1>0, <2>2, <2>4, <3>1, <3>2, <3>3, LiveMove DEF Moved
  <2> QED
    BY <2>5, <2>6, <2>7
<1>6. CASE Probe(t)
  <2>1. l.at = "probe" /\ UNCHANGED <<caddyfile, pem, caddy>>
    BY <1>6 DEF Probe, At, DiskUnchanged
  <2>2. Loaded(caddy')
    BY <1>0, <2>1 DEF Loaded
  <2>3. CASE caddy.up /\ l.op = "swap" /\ Goto(t, "rerender")
    <3> DEFINE r == [l EXCEPT !.at = "rerender"]
    <3>1. req' = [req EXCEPT ![t] = r]
      BY <2>3 DEF Goto
    <3>2. r.at = "rerender" /\ Moved(l, r)
      BY <1>0 DEF Local, Moved
    <3> HIDE DEF r
    <3>3. r.alone => Lives(r, caddyfile', pem', caddy')
      BY <1>0, <2>1, <2>3, <3>2 DEF Moved, Lives, SwapLive, Okay, Old, Cert
    <3> QED
      BY <1>0, <2>1, <2>2, <3>1, <3>2, <3>3, LiveMove DEF Moved
  <2>4. CASE /\ caddy.up /\ l.op # "swap"
             /\ req' = [req EXCEPT ![t].at = "done", ![t].answer = "ok", ![t].clean = TRUE]
    <3> DEFINE r == [l EXCEPT !.at = "done", !.answer = "ok", !.clean = TRUE]
    <3>1. req' = [req EXCEPT ![t] = r]
      BY <2>4
    <3>2. r.at = "done" /\ r.answer = "ok" /\ Moved(l, r)
      BY <1>0 DEF Local, Moved
    <3> HIDE DEF r
    <3>3. r.alone => Lives(r, caddyfile', pem', caddy')
      BY <1>0, <2>1, <2>4, <3>2 DEF Moved, Lives, SwitchLive, Okay
    <3> QED
      BY <1>0, <2>1, <2>2, <3>1, <3>2, <3>3, LiveMove DEF Moved
  <2>5. CASE Goto(t, ForOp(t, "restore", "undo"))
    <3> DEFINE r == [l EXCEPT !.at = ForOp(t, "restore", "undo")]
    <3>1. req' = [req EXCEPT ![t] = r]
      BY <2>5 DEF Goto
    <3>2. r.at \in {"restore", "undo"} /\ Moved(l, r)
      BY <1>0 DEF Local, Moved, ForOp
    <3> HIDE DEF r
    <3>3. Lives(r, caddyfile', pem', caddy')
      BY <3>2 DEF Lives, SwapLive, SwitchLive, Okay
    <3> QED
      BY <1>0, <2>1, <2>2, <3>1, <3>2, <3>3, LiveMove DEF Moved
  <2> QED
    BY <1>6, <2>3, <2>4, <2>5 DEF Probe
<1>7. CASE Restore(t) \/ RestoreKey(t) \/ RestoreLoad(t) \/ Undo(t) \/ UndoLoad(t)
  <2>1. CaddyMoves /\ l.at # "idle"
    <3>1. CASE Restore(t) \/ RestoreKey(t) \/ Undo(t)
      BY <3>1 DEF Restore, RestoreKey, RestoreFile, WriteFile, Undo, CaddyMoves, At
    <3>2. CASE RestoreLoad(t) \/ UndoLoad(t)
      <4>1. PICK a \in LoadAnswers : reload_proxy(a)
        BY <3>2 DEF RestoreLoad, UndoLoad
      <4> QED
        BY <3>2, <4>1, LoadMoves DEF RestoreLoad, UndoLoad, CaddyMoves, At
    <3> QED
      BY <1>7, <3>1, <3>2
  <2>2. PICK step \in {"restoreKey", "restoreLoad", "undo", "undoLoad"} :
          \/ req' = [req EXCEPT ![t].at = step]
          \/ req' = [req EXCEPT ![t].at = "done", ![t].answer = "refused"]
    BY <1>7 DEF Restore, RestoreKey, RestoreFile, WriteFile, RestoreLoad, Undo, UndoLoad, Goto, Answer
  <2>3. PICK r \in {[l EXCEPT !.at = step], [l EXCEPT !.at = "done", !.answer = "refused"]} :
          req' = [req EXCEPT ![t] = r]
    BY <2>2
  <2>4. /\ r.at \in {"restoreKey", "restoreLoad", "undo", "undoLoad"} \/ (r.at = "done" /\ r.answer = "refused")
        /\ Moved(l, r)
    BY <1>0, <2>3 DEF Local, Moved
  <2>5. Lives(r, caddyfile', pem', caddy')
    BY <2>4 DEF Lives, SwapLive, SwitchLive, Okay
  <2>6. Loaded(caddy')
    BY <1>0, <2>1, StaysLoaded
  <2> QED
    BY <1>0, <2>1, <2>3, <2>4, <2>5, <2>6, LiveMove DEF Moved
<1>8. CASE Rerender(t)
  <2> DEFINE r == [l EXCEPT !.at = "reload"]
             conf == _render_caddyfile("files", l.host)
  <2>1. /\ req' = [req EXCEPT ![t] = r] /\ l.at = "rerender"
        /\ caddyfile' = conf /\ UNCHANGED <<pem, caddy>>
    BY <1>8 DEF Rerender, Goto, At, _write_caddyfile_with_backup
  <2>2. r.at = "reload" /\ Moved(l, r)
    BY <1>0 DEF Local, Moved
  <2>3. l.op = "swap" /\ pem = Holding(Cert(l))
    BY <1>0, <2>1 DEF Shape, OnlySwap, SwapInv
  <2>4. conf.tls = "files" /\ conf.marker = Cert(l)
    BY <2>3 DEF _render_caddyfile, Holding, Files
  <2> HIDE DEF r, conf
  <2>5. r.alone => SwapLive(r, caddyfile', pem', caddy')
    <3> SUFFICES ASSUME r.alone PROVE SwapLive(r, caddyfile', pem', caddy')
      OBVIOUS
    <3>1. caddy.conf = caddyfile /\ caddyfile.marker = Old(l)
      BY <1>0, <2>1, <2>2, <2>3 DEF Moved, Lives, SwapLive
    <3>2. Cert(r) = Cert(l) /\ Old(r) = Old(l)
      BY <2>2 DEF Moved, Cert, Old
    <3>3. Cert(r) # Old(r) => caddy'.conf # caddyfile'
      BY <2>1, <2>4, <3>1, <3>2
    <3> QED
      BY <2>1, <2>2, <2>4, <3>2, <3>3 DEF SwapLive, Okay
  <2>6. r.alone => Lives(r, caddyfile', pem', caddy')
    BY <2>2, <2>3, <2>5 DEF Lives, Moved
  <2>7. Loaded(caddy')
    BY <1>0, <2>1 DEF Loaded
  <2> QED
    BY <1>0, <2>1, <2>2, <2>6, <2>7, LiveMove DEF Moved
<1>9. CASE Reload(t)
  <2>1. PICK a \in LoadAnswers :
          /\ reload_proxy(a)
          /\ req' = [req EXCEPT ![t].at = "done", ![t].answer = "ok", ![t].clean = (a = "ok")]
    BY <1>9 DEF Reload
  <2> DEFINE r == [l EXCEPT !.at = "done", !.answer = "ok", !.clean = (a = "ok")]
  <2>2. /\ req' = [req EXCEPT ![t] = r] /\ l.at = "reload"
        /\ UNCHANGED <<caddyfile, pem, pemBackup>>
    BY <1>9, <2>1 DEF Reload, At, DiskUnchanged
  <2>3. r.at = "done" /\ r.answer = "ok" /\ r.clean = (a = "ok") /\ Moved(l, r)
    BY <1>0 DEF Local, Moved
  <2>4. CaddyMoves /\ (a = "ok" => caddy'.conf = caddyfile /\ caddy'.up)
    BY <2>1, LoadMoves DEF CaddyMoves
  <2>5. l.op = "swap" /\ pem = Holding(Cert(l))
    BY <1>0, <2>2 DEF Shape, OnlySwap, SwapInv
  <2> HIDE DEF r
  <2>6. r.alone => SwapLive(r, caddyfile', pem', caddy')
    <3> SUFFICES ASSUME r.alone PROVE SwapLive(r, caddyfile', pem', caddy')
      OBVIOUS
    <3>1. Lives(l, caddyfile, pem, caddy')
      BY <1>0, <2>3, <2>4, LivesOn DEF Moved
    <3>2. SwapLive(l, caddyfile, pem, caddy')
      BY <2>5, <3>1 DEF Lives
    <3>3. Cert(r) = Cert(l) /\ Old(r) = Old(l)
      BY <2>3 DEF Moved, Cert, Old
    <3> QED
      BY <2>2, <2>3, <2>4, <2>5, <3>2, <3>3 DEF SwapLive, Okay
  <2>7. r.alone => Lives(r, caddyfile', pem', caddy')
    BY <2>3, <2>5, <2>6 DEF Lives, Moved
  <2>8. Loaded(caddy')
    BY <1>0, <2>4, StaysLoaded
  <2> QED
    BY <1>0, <2>2, <2>3, <2>7, <2>8, LiveMove DEF Moved
<1>10. CASE Finish(t)
  <2>1. req' = [req EXCEPT ![t] = Idle] /\ l.at = "done" /\ Idle.alone = FALSE
    BY <1>10 DEF Finish, At, Idle
  <2>2. Loaded(caddy')
    BY <1>0, <1>10 DEF Finish, Loaded
  <2> QED
    BY <1>0, <2>1, <2>2, LiveMove
<1> QED
  BY <1>1, <1>2, <1>3, <1>4, <1>5, <1>6, <1>7, <1>8, <1>9, <1>10 DEF Step

\* What a request that ran alone was told is live is what Caddy runs, for any
\* number of certificates, hosts, reloads and restarts: the cert_marker makes
\* the last Caddyfile of a swap differ from the one Caddy runs.
THEOREM AcceptedIsLive == Spec => []OkIsLive
<1>1. Init => LiveInv
  <2> SUFFICES ASSUME Init PROVE LiveInv
    OBVIOUS
  <2>1. Idle.alone = FALSE
    BY DEF Idle
  <2>2. caddyfile.host = DefaultHost /\ caddy = Running(caddyfile, pem)
    BY DEF Init, FirstConf
  <2>3. Loaded(caddy)
    BY <2>2, CertAssumption DEF Loaded, Running
  <2> QED
    BY <2>1, <2>3 DEF Init, LiveInv
<1>2. IInv /\ LiveInv /\ [Next]_vars => LiveInv'
  <2> SUFFICES ASSUME IInv, LiveInv, [Next]_vars PROVE LiveInv'
    OBVIOUS
  <2>1. ASSUME NEW t \in Requests, Step(t) PROVE LiveInv'
    BY <2>1, LiveRequest
  <2>2. CASE CaddyMoves /\ UNCHANGED <<caddyfile, pem, req>>
    <3>1. Loaded(caddy')
      BY <2>2, StaysLoaded DEF IInv, LiveInv
    <3>2. ASSUME NEW t \in Requests, req'[t].alone
          PROVE  /\ \A u \in Requests : u # t => req'[u].at = "idle"
                 /\ Lives(req'[t], caddyfile', pem', caddy')
      <4>1. req[t] \in Local /\ Shape(req[t]) /\ SwapInv(req[t], pem, pemBackup, spoiled) /\ TypeOK
        BY DEF IInv, TypeOK, SwapsInv, ReqInv
      <4>2. Lives(req[t], caddyfile, pem, caddy')
        BY <2>2, <3>2, <4>1, LivesOn DEF LiveInv
      <4> QED
        BY <2>2, <3>2, <4>2 DEF LiveInv
    <3>3. LiveInv' = (/\ Loaded(caddy')
                      /\ \A u \in Requests : req'[u].alone =>
                           /\ \A v \in Requests : v # u => req'[v].at = "idle"
                           /\ Lives(req'[u], caddyfile', pem', caddy'))
      BY DEF LiveInv, Lives, SwapLive, SwitchLive, Loaded, Okay, Cert, Old, Accepts
    <3> QED
      BY <3>1, <3>2, <3>3
  <2>3. CASE ReloadButton \/ CaddyRestart \/ Tick \/ UNCHANGED vars
    <3>1. CASE ReloadButton
      <4>1. PICK a \in LoadAnswers : reload_proxy(a)
        BY <3>1 DEF ReloadButton
      <4> QED
        BY <2>2, <3>1, <4>1, LoadMoves DEF ReloadButton, CaddyMoves, DiskUnchanged
    <3>2. CASE CaddyRestart
      BY <2>2, <3>2 DEF CaddyRestart, CaddyMoves
    <3>3. CASE Tick \/ UNCHANGED vars
      BY <2>2, <3>3 DEF Tick, vars, CaddyMoves
    <3> QED
      BY <2>3, <3>1, <3>2, <3>3
  <2> QED
    BY <2>1, <2>3 DEF Next
<1>3. IInv /\ LiveInv => OkIsLive
  <2> SUFFICES ASSUME IInv, LiveInv, NEW t \in Requests, Done(t, "ok"), req[t].clean, req[t].alone,
                      req[t].op = "swap" => req[t].upload["fullchain"] # req[t].pemBefore["fullchain"]
               PROVE  /\ caddy.up /\ caddy.conf = caddyfile
                      /\ caddy.cert = ForOp(t, req[t].upload["fullchain"], Internal)
    BY DEF OkIsLive
  <2>1. Okay(req[t]) /\ Lives(req[t], caddyfile, pem, caddy)
    BY DEF Done, At, Okay, LiveInv
  <2>2. req[t].op \in {"swap", "switch"}
    BY <2>1 DEF IInv, SwapsInv, ReqInv, Shape, TypeOK, Local, Okay
  <2>3. CASE req[t].op = "swap"
    BY <2>1, <2>3 DEF Lives, SwapLive, ForOp, Cert, Old
  <2>4. CASE req[t].op = "switch"
    BY <2>1, <2>4 DEF Lives, SwitchLive, ForOp, LiveInv, Loaded
  <2> QED
    BY <2>2, <2>3, <2>4
<1> QED
  BY <1>1, <1>2, <1>3, Inductive, PTL DEF Spec
=============================================================================
