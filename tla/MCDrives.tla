------------------------------- MODULE MCDrives -------------------------------
(* Disks for model checking Drives: a master boot record of two entries, and *)
(* extended partitions of one to three records with or without a FAT32       *)
(* partition in each.  Entry k begins at 100 * k, a record has room for 10.  *)
EXTENDS Drives

Table == {t \in [1..2 -> [kind : Kind, lba : {100, 200}]] : \A k \in 1..2 : t[k].lba = 100 * k}

RecordsOf(kinds, e) ==
    [a \in {e + 10 * (j - 1) : j \in DOMAIN kinds} |->
        LET j == (a - e) \div 10 + 1
        IN  [kind |-> kinds[j], first |-> 1, next |-> IF j < Len(kinds) THEN 10 * j ELSE 0]]

Both(f, g) == [a \in DOMAIN f \cup DOMAIN g |-> IF a \in DOMAIN f THEN f[a] ELSE g[a]]

Chains == UNION {[1..n -> {"fat32", "other"}] : n \in 1..3}

MCDisks ==
    {[mbr |-> t, ebr |-> Both(RecordsOf(x, 100), RecordsOf(y, 200))] :
        t \in Table, x \in {<<"fat32">>, <<"fat32", "fat32">>}, y \in Chains}

ASSUME MCDisksWellFormed == \A d \in MCDisks : WellFormed(d)
==============================================================================
