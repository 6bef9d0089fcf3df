------------------------ MODULE MCHostPagedKVBackend ------------------------
(* Model-checking instance of the host page allocator.                     *)
EXTENDS HostPagedKVBackend
=============================================================================
