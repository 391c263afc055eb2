-------------------------- MODULE MCServiceWorker ---------------------------
(* One page in front of one worker, with one broker address or two. *)
EXTENDS ServiceWorker

CONSTANTS a, b

OneUrl  == {a}
TwoUrls == {a, b}
=============================================================================
