------------------------------ MODULE MCCertSwap ------------------------------
(* Instances of CertSwap for TLC. *)
EXTENDS CertSwap
CONSTANTS r1, c1, c2, weak, env, typo

(* The view forgets what no later step reads: the backups no request will put
   back, what a stopped Caddy ran, a text once written, the certificate and the
   backup of a swap that is being refused. *)
ReadsPem  == {t \in Requests : req[t].at \in {"chain", "key", "load", "probe", "restore", "restoreKey"}
                               /\ req[t].op = "swap"}
ReadsConf == {t \in Requests : req[t].at \notin {"idle", "render", "write", "undoLoad", "done"}}
Uploads   == {"render", "write", "backup", "chain", "key", "load", "probe", "rerender", "reload", "done"}

Backups ==
  <<[t \in ReadsPem |-> pemBackup[req[t].dir]], [t \in ReadsConf |-> confBackup[req[t].bak]],
    [t \in ReadsPem |-> req[t].dir = clock], [t \in ReadsConf |-> req[t].bak = clock],
    {f \in Files : pem[f] = NoFile /\ pemBackup[clock][f] # NoFile}>>
Outside == <<clock, pem, caddyfile, spoiled, IF caddy.up THEN caddy ELSE {}, Backups>>
Live(r) ==
  <<r.at, r.op, r.answer, r.clean,
    IF r.at \in Uploads /\ r.answer # "refused" THEN <<r.host, r.upload>> ELSE {},
    IF r.op = "swap" /\ r.answer # "error" THEN r.pemBefore ELSE {},
    IF r.answer = "none" \/ r.answer = "refused" THEN r.confBefore ELSE {},
    IF r.at = "write" THEN r.conf ELSE {}>>
SerialView == <<Outside, [t \in Requests |-> Live(req[t])], [t \in Requests |-> req[t].alone]>>
==============================================================================
