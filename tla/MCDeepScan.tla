----------------------------- MODULE MCDeepScan -----------------------------
EXTENDS DeepScan, TLC

CONSTANTS a, b, c, cron, api

(* names are alike: one list of each length                                  *)
MCConfigured == {SubSeq(<<a, b, c>>, 1, n) : n \in 0..3}
=============================================================================
