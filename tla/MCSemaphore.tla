---------------------------- MODULE MCSemaphore ----------------------------
(* Three goroutines compete for one or two slots.                          *)
EXTENDS Semaphore
=============================================================================
