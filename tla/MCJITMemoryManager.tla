-------------------------- MODULE MCJITMemoryManager --------------------------
(* The JIT's memory manager with two small slabs.                            *)
EXTENDS JITMemoryManager
=============================================================================
