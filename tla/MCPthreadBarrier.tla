-------------------------- MODULE MCPthreadBarrier --------------------------
(* Bounds: 3 threads, so that one sleeps while another re-enters, and 4    *)
(* calls, so that turn takes each value twice.                             *)
EXTENDS PthreadBarrier
=============================================================================
