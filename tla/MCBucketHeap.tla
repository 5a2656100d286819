---------------------------- MODULE MCBucketHeap ----------------------------
(* Instances of BucketHeap for TLC. *)
EXTENDS BucketHeapProperties

CONSTANTS t1, t2, heap, b1, b2

(* Flags a caller passes to malloc, amalloc, and for memory a device can use. *)
PlainFlags == {{}}
AllFlags   == {{}, {"ALIGNED"}, {"PHYSICAL", "LOW"}, {"PHYSICAL", "ALIGNED"}}
=============================================================================
