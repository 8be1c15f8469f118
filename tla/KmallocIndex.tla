----------------------------- MODULE KmallocIndex -----------------------------
(***************************************************************************)
(* Which cache kmalloc takes for a size: kmalloc_size_index of mm/slab.c,  *)
(* a search for the highest bit of the size with a correction for the      *)
(* caches of 96 and 192 bytes.                                             *)
(***************************************************************************)
EXTENDS Integers, Sequences

\* kmalloc_infos; the code counts from 0.
CacheSizes == <<8, 16, 32, 64, 96, 128, 192, 256, 512, 1024, 2048>>
MaxKmallocCacheSize == 2048
WordBytes == 8

\* A turn of the search: if the upper part of the number is not 0, go on with it.
Narrow(found, bits, unit) ==
  IF found.size \div unit # 0
  THEN [fls |-> found.fls + bits, size |-> found.size \div unit]
  ELSE found

\* How many of the caches of 96 and 192 bytes lie below.
Skip(fls) == IF fls = 7 THEN 1 ELSE IF fls > 7 THEN 2 ELSE 0

SizeIndex(size) ==
  LET start == [fls |-> 1, size |-> ((size + WordBytes - 1) \div WordBytes) * WordBytes - 1]
      two   == Narrow(Narrow(Narrow(start, 8, 256), 4, 16), 2, 4)
      fls   == Narrow(two, 1, 2).fls
  IN fls - 3 + (IF fls \in {6, 7} /\ two.size % 2 = 1 THEN 1 ELSE 0) + Skip(fls)

=============================================================================
