----------------------------- MODULE ProxyLists -----------------------------
(***************************************************************************)
(* Lists of proxy URLs as an administrator types them (internal/store/     *)
(* proxy_config.go).  A list is the sequence of its lines; blank lines are *)
(* Blank, and lines that are no valid URL are Malformed.                   *)
(***************************************************************************)
EXTENDS Naturals, Sequences, FiniteSets

CONSTANTS Proxies,     \* proxy URLs
          Lists,       \* the lists an administrator may enter or the database hold
          Blank,       \* a blank line
          Malformed    \* a line that is no proxy URL

ASSUME ListsAssumption == Lists \subseteq Seq(Proxies \cup {Blank, Malformed})

(* ParseDefaultProxyURLs: the lines but the blank ones, each one once.     *)
Invalid(list) == \E i \in DOMAIN list : list[i] = Malformed
Kept(list) == {i \in DOMAIN list : list[i] # Blank /\ \A j \in 1..(i - 1) : list[j] # list[i]}
Parse(list) ==
    [n \in 1..Cardinality(Kept(list)) |->
        list[CHOOSE i \in Kept(list) : Cardinality({j \in Kept(list) : j <= i}) = n]]
=============================================================================
