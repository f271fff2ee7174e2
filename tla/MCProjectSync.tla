---------------------------- MODULE MCProjectSync ----------------------------
(* Two repositories, one reached by HTTPS and one by SSH, with two         *)
(* branches each, and a token that fits the first only.  The project       *)
(* starts at the first; an update takes it to the second.                  *)
EXTENDS ProjectSync, TLC

CONSTANTS https, ssh, main, next, token

KindOfCredential == [k \in Credentials |-> "https_token"]
SchemeOfUrl == [u \in Urls |-> IF u = ssh THEN "ssh_key" ELSE "https_token"]

\* One field each, and the URL with or without its credential.
Ask(url, branch, auth) == [url |-> url, branch |-> branch, auth |-> auth]
MCRequests == {Ask(ssh, Keep, None), Ask(ssh, Keep, Keep), Ask(Keep, next, Keep),
               Ask(Keep, Keep, token)}
MCNewRows == {Ask(https, main, token)}
BranchNewRows == {Ask(https, main, None)}
BranchRequests == {Ask(Keep, next, Keep)}

SyncSymmetry == Permutations(Syncs)
=============================================================================
