------------------------------- MODULE CertSwap -------------------------------
(***************************************************************************)
(* Certificate and mode changes of the reverse proxy (api/v2/proxy.py).    *)
(* A super admin uploads a certificate (POST cert/swap) or switches to the *)
(* proxy's internal CA (POST mode/switch).  The app rewrites the Caddyfile *)
(* and the PEM files in place on mounts it shares with Caddy, posts the    *)
(* Caddyfile to Caddy's /load, probes a handshake, and puts everything     *)
(* back when a step fails.                                                 *)
(*                                                                         *)
(* cert/swap is an async handler whose whole body blocks the event loop,   *)
(* so nothing is dispatched while it runs; mode/switch and reload run in   *)
(* the thread pool and interleave with it once they have been dispatched.  *)
(***************************************************************************)
EXTENDS Naturals, FiniteSets

CONSTANTS
  Requests,     \* request threads
  Pairs,        \* certificates, each with the one private key that fits it
  Unloadable,   \* those that pass the validation rows and Caddy refuses
  Hosts,        \* hostnames the wizard may send
  DefaultHost,  \* $VIBEFORGE_HOSTNAME
  BadHosts,     \* hostnames Caddy refuses to serve
  MaxClock      \* bound: seconds that pass

NoFile   == "none"      \* a PEM file that does not exist; also its cert_marker
Torn     == "torn"      \* a PEM file truncated by a write that failed
Internal == "internal"  \* the leaf Caddy mints from its own CA
Unmarked == "unmarked"  \* the cert_marker of a Caddyfile no wizard wrote

ASSUME CertAssumption ==
  /\ Pairs \cap {NoFile, Torn, Internal, Unmarked} = {}
  /\ Unloadable \subseteq Pairs /\ BadHosts \subseteq Hosts
  /\ DefaultHost \in Hosts \ BadHosts
  /\ MaxClock \in Nat

VARIABLES
  clock,      \* the second the backup names are made of
  pem,        \* /certs/fullchain.pem and /certs/privkey.pem
  caddyfile,  \* /ops/caddy/Caddyfile
  pemBackup,  \* /certs/backup/<second>/
  confBackup, \* /ops/caddy/backup/Caddyfile.<second>
  caddy,      \* what the Caddy process runs
  req,        \* the locals of each request thread
  spoiled     \* history: since the last swap that was answered ok, a write that
              \* restores has failed, or a swap began with half a pair on disk

vars == <<clock, pem, caddyfile, pemBackup, confBackup, caddy, req, spoiled>>

(***************************************************************************)
(* Data                                                                    *)
(***************************************************************************)
Content == Pairs \cup {NoFile, Torn}
Files   == {"fullchain", "privkey"}
Pem     == [Files -> Content]
\* The four modes of the template differ in the tls directive only, and file
\* and self_signed render the same one.
Conf    == [tls : {"files", "internal"}, host : Hosts, marker : Content \cup {Unmarked}]
Seconds == 0 .. MaxClock

Steps == {"idle", "render", "write", "backup", "chain", "key", "load", "probe", "restore",
          "restoreKey", "restoreLoad", "undo", "undoLoad", "rerender", "reload", "done"}

Holding(c) == [f \in Files |-> c]
FirstConf(tls) == [tls |-> tls, host |-> DefaultHost, marker |-> Unmarked]
\* A thread that serves nothing.
Idle == [at |-> "idle", op |-> "none", upload |-> Holding(NoFile), host |-> DefaultHost,
         conf |-> FirstConf("files"), bak |-> 0, dir |-> 0, answer |-> "none",
         pemBefore |-> Holding(NoFile), confBefore |-> FirstConf("files"),
         alone |-> FALSE, clean |-> FALSE]

Process == [up : BOOLEAN, conf : Conf, cert : Pairs \cup {Internal}]
Local ==
  [at : Steps, op : {"none", "swap", "switch"}, upload : Pem,
   host : Hosts, conf : Conf, bak : Seconds, dir : Seconds,
   answer : {"none", "ok", "refused", "error"},
   pemBefore : Pem, confBefore : Conf,  \* history: the disk at the start
   alone : BOOLEAN,                     \* history: no other request ran
   clean : BOOLEAN]                     \* history: the last load answered ok

TypeOK ==
  /\ clock \in Seconds
  /\ pem \in Pem /\ caddyfile \in Conf
  /\ pemBackup \in [Seconds -> Pem] /\ confBackup \in [Seconds -> Conf]
  /\ caddy \in Process
  /\ req \in [Requests -> Local]
  /\ spoiled \in BOOLEAN

(***************************************************************************)
(* Caddy                                                                   *)
(***************************************************************************)
\* Caddy reads the PEM files a configuration names when it loads it.
Accepts(c, files) ==
  /\ c.host \notin BadHosts
  /\ c.tls = "files" => \E cert \in Pairs \ Unloadable : files = Holding(cert)

Running(c, files) ==
  [up |-> TRUE, conf |-> c,
   cert |-> IF c.tls = "internal" THEN Internal ELSE files["fullchain"]]

\* reload_proxy: the Caddyfile on disk goes to /load, and Caddy does nothing
\* when it already runs that configuration.
Takes == IF caddy.conf = caddyfile THEN UNCHANGED caddy
         ELSE Accepts(caddyfile, pem) /\ caddy' = Running(caddyfile, pem)

\* The answers of reload_proxy: success, 502, 503, and the read timeout of
\* urlopen, which is no URLError and escapes, after Caddy took the file or not.
reload_proxy(answer) ==
  CASE answer = "ok"          -> caddy.up /\ Takes
    [] answer = "rejected"    -> /\ caddy.up /\ caddy.conf # caddyfile
                                 /\ ~Accepts(caddyfile, pem)
                                 /\ UNCHANGED caddy
    [] answer = "unreachable" -> UNCHANGED caddy
    [] answer = "timeout"     -> caddy.up /\ (Takes \/ UNCHANGED caddy)

LoadAnswers == {"ok", "rejected", "unreachable", "timeout"}

\* Docker restarts Caddy, which starts from the files or not at all.
CaddyRestart ==
  /\ caddy' = IF Accepts(caddyfile, pem) THEN Running(caddyfile, pem)
              ELSE [caddy EXCEPT !.up = FALSE]
  /\ UNCHANGED <<clock, pem, caddyfile, pemBackup, confBackup, req, spoiled>>

(***************************************************************************)
(* Starting a request                                                      *)
(***************************************************************************)
\* cert_marker is a hash of the fullchain on disk: equal markers, equal files.
RenderUnmarked(tls, host) == [tls |-> tls, host |-> host, marker |-> Unmarked]
_render_caddyfile(tls, host) ==
  [tls |-> tls, host |-> host, marker |-> pem["fullchain"]]

\* No cert/swap occupies the event loop.
LoopFree == \A t \in Requests : req[t].op # "swap"

\* The validation rows let a key through that fits the certificate.  What the
\* other rows refuse (a file that does not parse, a name or a date that is not
\* good) is no member of Pairs.
Unvalidated(files) == TRUE
Validated(files) == \E cert \in Pairs : files = Holding(cert)

\* A request enters its handler; those in flight are no longer alone.
Enter(t, r) ==
  /\ LoopFree /\ req[t] = Idle
  /\ LET quiet == \A u \in Requests : req[u].at = "idle"
     IN  req' = [u \in Requests |->
                  IF u = t THEN [r EXCEPT !.alone = quiet]
                  ELSE [req[u] EXCEPT !.alone = FALSE]]
  /\ UNCHANGED <<clock, pem, caddyfile, pemBackup, confBackup, caddy, spoiled>>

Fresh == [Idle EXCEPT !.at = "write", !.pemBefore = pem, !.confBefore = caddyfile]

\* The first render of cert/swap takes the default host and the old marker.
StartSwap(t) ==
  \E files \in [Files -> Pairs], host \in Hosts :
    /\ Validated(files)
    /\ Enter(t, [Fresh EXCEPT !.op = "swap", !.upload = files, !.host = host,
                              !.conf = _render_caddyfile("files", DefaultHost)])

StartSwitch(t) ==
  \E host \in Hosts : Enter(t, [Fresh EXCEPT !.op = "switch", !.host = host, !.at = "render"])

(***************************************************************************)
(* The steps of a request                                                  *)
(***************************************************************************)
At(t, step) == req[t].at = step
Goto(t, step) == req' = [req EXCEPT ![t].at = step]
Answer(t, a) == req' = [req EXCEPT ![t].at = "done", ![t].answer = a]
ForOp(t, swap, switch) == IF req[t].op = "swap" THEN swap ELSE switch

Render(t) ==
  /\ At(t, "render")
  /\ req' = [req EXCEPT ![t].at = "write", ![t].conf = _render_caddyfile("internal", req[t].host)]
  /\ UNCHANGED <<clock, pem, caddyfile, pemBackup, confBackup, caddy, spoiled>>

\* Two backups of one second have one name: the second replaces the first.
BackupAfterWrite(conf) ==
  /\ confBackup' = [confBackup EXCEPT ![clock] = conf]
  /\ caddyfile' = conf
  /\ UNCHANGED <<clock, pem, pemBackup, caddy>>
_write_caddyfile_with_backup(conf) ==
  /\ confBackup' = [confBackup EXCEPT ![clock] = caddyfile]
  /\ caddyfile' = conf
  /\ UNCHANGED <<clock, pem, pemBackup, caddy>>

Write(t) ==
  /\ At(t, "write")
  /\ _write_caddyfile_with_backup(req[t].conf)
  /\ req' = [req EXCEPT ![t].at = ForOp(t, "backup", "load"), ![t].bak = clock]
  /\ UNCHANGED spoiled

\* One file without the other: a refused swap that brings the missing one has
\* no backup of it, so it stays.
Half(files) == (files["fullchain"] = NoFile) # (files["privkey"] = NoFile)

\* safely_swap_cert, step 1: the files that exist go to the directory of this
\* second; when that fails the swap is over.
Backup(t) ==
  /\ At(t, "backup")
  /\ \/ /\ pemBackup' = [pemBackup EXCEPT ![clock] =
            [f \in Files |-> IF pem[f] = NoFile THEN @[f] ELSE pem[f]]]
        /\ req' = [req EXCEPT ![t].at = "chain", ![t].dir = clock]
        /\ spoiled' = (spoiled \/ Half(pem))
     \/ Goto(t, "undo") /\ UNCHANGED <<pemBackup, spoiled>>
  /\ UNCHANGED <<clock, pem, caddyfile, confBackup, caddy>>

\* A file is truncated when it is opened, then written.  Either may fail, and
\* leaves the file as it was or torn.
WriteFile(t, file, content, next, failed) ==
  /\ \/ pem' = [pem EXCEPT ![file] = content] /\ Goto(t, next)
     \/ pem' \in {pem, [pem EXCEPT ![file] = Torn]} /\ Goto(t, failed)
  /\ UNCHANGED <<clock, caddyfile, pemBackup, confBackup, caddy>>

\* Step 2.
Upload(t, file, next) ==
  WriteFile(t, file, req[t].upload[file], next, "restore") /\ UNCHANGED spoiled

WriteChain(t) == At(t, "chain") /\ Upload(t, "fullchain", "key")
WriteKey(t)   == At(t, "key") /\ Upload(t, "privkey", "load")

DiskUnchanged == UNCHANGED <<clock, pem, caddyfile, pemBackup, confBackup, spoiled>>

\* Step 3, and the reload of mode/switch: both catch HTTPException only, so a
\* read timeout leaves the handler and is answered 500.
Load(t) ==
  /\ At(t, "load")
  /\ \E a \in LoadAnswers :
       /\ reload_proxy(a)
       /\ CASE a = "ok"      -> Goto(t, "probe")
            [] a = "timeout" -> Answer(t, "error")
            [] OTHER         -> Goto(t, ForOp(t, "restore", "undo"))
  /\ DiskUnchanged

\* Step 4: the handshake of a running Caddy, which the network may still lose.
Probe(t) ==
  /\ At(t, "probe")
  /\ \/ /\ caddy.up
        /\ IF req[t].op = "swap" THEN Goto(t, "rerender")
           ELSE req' = [req EXCEPT ![t].at = "done", ![t].answer = "ok", ![t].clean = TRUE]
     \/ Goto(t, ForOp(t, "restore", "undo"))
  /\ DiskUnchanged /\ UNCHANGED caddy

\* _restore puts back the certificate, then the key, as far as they were backed
\* up, and reloads.  It swallows the failure of a write, which ends it.
RestoreFile(t, file, next) ==
  LET saved == pemBackup[req[t].dir][file]
  IN  IF saved = NoFile THEN Goto(t, next) /\ DiskUnchanged /\ UNCHANGED caddy
      ELSE /\ WriteFile(t, file, saved, next, "undo")
           /\ spoiled' = (spoiled \/ req'[t].at = "undo")

RestoreChainOnly(t) == At(t, "restore") /\ RestoreFile(t, "fullchain", "restoreLoad")
Restore(t)          == At(t, "restore") /\ RestoreFile(t, "fullchain", "restoreKey")
RestoreKey(t)       == At(t, "restoreKey") /\ RestoreFile(t, "privkey", "restoreLoad")

\* What this reload and the second probe answer changes the wording only.
RestoreLoad(t) ==
  /\ At(t, "restoreLoad")
  /\ \E a \in LoadAnswers : reload_proxy(a)
  /\ Goto(t, "undo") /\ DiskUnchanged

\* _restore_caddyfile and the last reload of a refused request.
Undo(t) ==
  /\ At(t, "undo")
  /\ caddyfile' = confBackup[req[t].bak]
  /\ Goto(t, "undoLoad")
  /\ UNCHANGED <<clock, pem, pemBackup, confBackup, caddy, spoiled>>

UndoLoad(t) ==
  /\ At(t, "undoLoad")
  /\ \E a \in LoadAnswers : reload_proxy(a)
  /\ Answer(t, "refused") /\ DiskUnchanged

\* The new certificate is on disk: render again, with its marker and the host
\* of the wizard, and load that.  Failures are logged and the answer stays ok.
Rerender(t) ==
  /\ At(t, "rerender")
  /\ _write_caddyfile_with_backup(_render_caddyfile("files", req[t].host))
  /\ Goto(t, "reload")
  /\ spoiled' = FALSE

Reload(t) ==
  /\ At(t, "reload")
  /\ \E a \in LoadAnswers :
       /\ reload_proxy(a)
       /\ req' = [req EXCEPT ![t].at = "done", ![t].answer = "ok", ![t].clean = (a = "ok")]
  /\ DiskUnchanged

\* The response is sent; the event loop is free again.
Finish(t) ==
  /\ At(t, "done")
  /\ req' = [req EXCEPT ![t] = Idle]
  /\ DiskUnchanged /\ UNCHANGED caddy

(***************************************************************************)
(* Around the requests                                                     *)
(***************************************************************************)
\* POST reload, and cert/renew in internal mode: the load is all they do.  A
\* thread dispatched before a swap may load in the middle of it.
ReloadButton ==
  /\ \E a \in LoadAnswers : reload_proxy(a)
  /\ DiskUnchanged /\ UNCHANGED req

Tick ==
  /\ clock < MaxClock
  /\ clock' = clock + 1
  /\ UNCHANGED <<pem, caddyfile, pemBackup, confBackup, caddy, req, spoiled>>

\* The installer writes an internal-CA Caddyfile and no certificate; an
\* operator's machine serves a pair from the files.
Init ==
  /\ clock = 0
  /\ \/ pem = Holding(NoFile) /\ caddyfile = FirstConf("internal")
     \/ \E p \in Pairs \ Unloadable :
          /\ pem = Holding(p)
          /\ caddyfile = FirstConf("files")
  /\ pemBackup = [s \in Seconds |-> Holding(NoFile)]
  /\ confBackup = [s \in Seconds |-> caddyfile]
  /\ caddy = Running(caddyfile, pem)
  /\ req = [t \in Requests |-> Idle]
  /\ spoiled = FALSE

Step(t) ==
  \/ StartSwap(t) \/ StartSwitch(t) \/ Render(t) \/ Write(t)
  \/ Backup(t) \/ WriteChain(t) \/ WriteKey(t) \/ Load(t) \/ Probe(t)
  \/ Restore(t) \/ RestoreKey(t) \/ RestoreLoad(t) \/ Undo(t) \/ UndoLoad(t)
  \/ Rerender(t) \/ Reload(t) \/ Finish(t)

Next == (\E t \in Requests : Step(t)) \/ ReloadButton \/ CaddyRestart \/ Tick

Spec == Init /\ [][Next]_vars

(***************************************************************************)
(* Properties                                                              *)
(***************************************************************************)
Done(t, answer) == At(t, "done") /\ req[t].answer = answer

\* When no swap is between its two writes or on its way to the restore, the
\* private key on disk is the one of the certificate on disk, whatever failed
\* before and whichever requests overlapped: a Caddy that loads the files finds
\* a pair (safely_swap_cert, and the event loop that keeps swaps apart).  A
\* restore that fails, or one without a backup of both files, breaks this until
\* the next swap that is answered ok.
Matching(files) ==
  (\A f \in Files : files[f] \in Pairs) => \E c \in Pairs : files = Holding(c)
PairMatches ==
  /\ ~spoiled
  /\ \A t \in Requests : req[t].at \notin {"key", "restore", "restoreKey"}
  => Matching(pem)

\* A refused swap has put back the certificate and the key it found, if it
\* found both and the writes that restore them do not fail, also when mode
\* switches, reloads and Caddy restarts overlap it (_restore of safely_swap_cert).
RefusedSwapRestores ==
  \A t \in Requests :
    /\ Done(t, "refused") /\ req[t].op = "swap"
    /\ \A f \in Files : req[t].pemBefore[f] # NoFile
    /\ ~spoiled
    => pem = req[t].pemBefore

\* A refused request that ran alone has put back the Caddyfile it found, although
\* backups of one second share a name (_restore_caddyfile).
RefusalRestoresConf ==
  \A t \in Requests :
    Done(t, "refused") /\ req[t].alone => caddyfile = req[t].confBefore

\* A request that ran alone and whose last load Caddy accepted is live: Caddy
\* runs the Caddyfile on disk, with the internal CA after a switch and with the
\* uploaded certificate after a swap to another one, although /load ignores a
\* configuration it already runs (the cert_marker of _render_caddyfile).
OkIsLive ==
  \A t \in Requests :
    /\ Done(t, "ok") /\ req[t].clean /\ req[t].alone
    /\ req[t].op = "swap" => req[t].upload["fullchain"] # req[t].pemBefore["fullchain"]
    => /\ caddy.up /\ caddy.conf = caddyfile
       /\ caddy.cert = ForOp(t, req[t].upload["fullchain"], Internal)

\* "New cert is live", says the wizard of every swap answered ok
\* (admin_portal_change_cert.html:1140).  (Refuted: README, Disagreements.)
SwapIsLive ==
  \A t \in Requests :
    Done(t, "ok") /\ req[t].op = "swap" /\ req[t].alone =>
      caddy.cert = req[t].upload["fullchain"]
==============================================================================
