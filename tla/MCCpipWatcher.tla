--------------------------- MODULE MCCpipWatcher ----------------------------
(* Two callers and one subscriber of the watcher. *)
EXTENDS CpipWatcher

CONSTANTS c1, c2, s1

TwoClients == {c1, c2}
OneSubscriber == {s1}
=============================================================================
