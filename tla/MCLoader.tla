------------------------------- MODULE MCLoader -------------------------------
(* Disks and configurations for model checking Loader: one primary and one   *)
(* extended partition of three logical ones; kernels of one to three         *)
(* clusters, of clusters in any order, one of them from the upper half; and  *)
(* configurations with a default beyond the menu, no timeout and an unknown  *)
(* key first.                                                                *)
EXTENDS Loader, Bitwise

MCBitOr(a, b) == a | b

L(key, part, value) == [key |-> key, part |-> part, value |-> value]

MCConfigs ==
    {<<L("timeout", NoPart, t), L("default", NoPart, d),
       L("osmosys", p, 0), L("chloados", 10, 0), L("chloados", 11, 0)>> :
        t \in 0..2, d \in 0..3, p \in {0, 9, 10}}
    \cup {<<L("unknown", NoPart, 1), L("timeout", NoPart, 1), L("osmosys", 0, 0)>>}

MCTables ==
    {[mbr |-> <<1000, 3000>>,
      ebr |-> [a \in {3000, 3100, 3200} |->
                 [first |-> 1, next |-> CASE a = 3000 -> 100 [] a = 3100 -> 200 [] OTHER -> 0]]]}

MCDirectories ==
    {[root |-> r, osmosys |-> o] :
        r \in {<<"other", "OSMOSYS">>, <<"end", "OSMOSYS">>},
        o \in {<<"KERNEL">>, <<"other", "other">>}}

MCChains == UNION {{c \in [1..n -> {2, 3, 4}] : IsInjective(c)} : n \in 1..3} \cup {<<65538>>}
==============================================================================
