---------------------------- MODULE MCImageParts ----------------------------
(* Images as consoles have them, sealed by rules of their own, and kits of   *)
(* plain parts; text stands for the content of a loader and is its name.     *)
EXTENDS ImageParts

P(l, len, build, c) == Part(Magic(l), l, len, build, c.dev, l = "2BL" /\ c.dual, l = "2BL" /\ c.beta)
Seal(p, key) == [p EXCEPT !.under = {key}]

\* A retail console; the others change some of it.
Retail == [beta |-> FALSE, zeroed |-> FALSE, cpu |-> "k", bl |-> "b", dev |-> FALSE, dual |-> FALSE, second |-> FALSE, cpu4 |-> FALSE,
           len4 |-> 8, alt |-> FALSE, big |-> FALSE, junk |-> -1, build6 |-> <<6, 9>>,
           len7 |-> <<0, 0>>, miss |-> "none", files |-> {}]

Parts(c) ==
  [l \in {"2BL", "4BL", "5BL"} \cup (IF c.second THEN {"2BL_B"} ELSE {})
         \cup (IF c.beta THEN {"1BL"} ELSE {}) \cup (IF c.dev THEN {"3BL"} ELSE {})
         \cup {Six(i) : i \in {j \in Slots : c.len7[j] > 0}}
         \cup {Seven(i) : i \in {j \in Slots : c.len7[j] > 4}} |->
     CASE l \in {"6BL", "7BL"}     -> P(l, IF l = "6BL" THEN 4 ELSE c.len7[1], c.build6[1], c)
       [] l \in {"6BL_B", "7BL_B"} -> P(l, IF l = "6BL_B" THEN 4 ELSE c.len7[2], c.build6[2], c)
       [] l \in {"4BL", "2BL_B"}   -> P(l, IF l = "4BL" THEN c.len4 ELSE 8, 1900, c)
       [] OTHER                    -> P(l, IF l = "3BL" THEN 4 ELSE 8, 1900, c)]

Console(c) ==
  LET p    == Parts(c)
      key2 == CASE c.beta -> <<"1BL", "key">>
                [] c.dual \/ c.dev -> <<c.bl, "2BL">>
                [] OTHER -> <<c.bl, "2BL", c.cpu>>
      keyB == IF c.dev THEN Append(key2, "2BL_B") ELSE key2 \o <<"2BL_B", c.cpu>>
      key3 == <<IF c.second THEN "2BL_B" ELSE "2BL", "3BL", "3BL">>
      prev == CASE c.dev -> key3 [] c.second /\ ~ c.dev -> keyB [] OTHER -> key2
      key4 == CASE c.beta -> prev \o <<"4BL", "2BL", "box">>
                [] c.cpu4 -> <<c.cpu, "4BL">>
                [] OTHER -> Append(prev, "4BL")
      key(l) == CASE l = "2BL" -> key2 [] l = "2BL_B" -> keyB [] l = "3BL" -> key3
                  [] l = "4BL" -> key4 [] l = "5BL" -> Append(key4, "5BL")
                  [] l \in {"6BL", "6BL_B"} -> <<c.bl, l>>
                  [] OTHER -> <<IF l = "7BL" THEN "6BL" ELSE "6BL_B", "7BL", l>>
      used(i) == IF Seven(i) \in DOMAIN p THEN Need(4, c.len7[i]) ELSE 0
      len(l) == IF l \in DOMAIN p THEN RoundUp(p[l].len) ELSE 0
      ends[k \in 0..5] == IF k = 0 THEN (IF c.beta THEN BetaEntry ELSE Entry)
                          ELSE ends[k - 1] + len(ChainOrder[k])
      at(l) == CASE l = "6BL" -> Sys [] l = "6BL_B" -> Sys + Slot
                 [] l = "7BL" -> Sys + 4 [] l = "7BL_B" -> Sys + Slot + 4
                 [] OTHER -> ends[(CHOOSE k \in 1..6 : ChainOrder[k] = l) - 1]
      body(l) == LET q == IF l = "1BL" THEN p[l] ELSE Seal(p[l], key(l))
                 IN  CASE l = "6BL" -> [q EXCEPT !.used = used(1)]
                       [] l = "6BL_B" -> [q EXCEPT !.used = used(2)] [] OTHER -> q
      nonce == <<c.cpu, "plain">>
      vault == [Vault(c.alt) EXCEPT !.under = {<<c.cpu, nonce>>}, !.nonce = nonce, !.plain = FALSE]
  IN  [beta |-> c.beta, zeroed |-> c.zeroed, big |-> c.big, junk |-> c.junk, smc |-> 1, kv |-> vault,
       alt |-> IF c.alt THEN [vault EXCEPT !.alt = FALSE] ELSE NoVault,
       cells |-> [a \in {at(l) : l \in DOMAIN p} |-> body(CHOOSE l \in DOMAIN p : at(l) = a)],
       tails |-> [i \in Slots |-> IF used(i) = 0 THEN NoTail
                                  ELSE [there |-> TRUE, blocks |-> used(i), data |-> "rest"]]]

MCConsoles ==
  {Console(c) : c \in {Retail, [Retail EXCEPT !.cpu4 = TRUE, !.alt = TRUE],
     [Retail EXCEPT !.dual = TRUE, !.second = TRUE, !.len4 = 6, !.len7 = <<16, 24>>],
     [Retail EXCEPT !.dev = TRUE, !.len7 = <<24, 0>>],
     [Retail EXCEPT !.dev = TRUE, !.dual = TRUE, !.second = TRUE],
     [Retail EXCEPT !.beta = TRUE, !.zeroed = TRUE, !.dev = TRUE],
     [Retail EXCEPT !.zeroed = TRUE, !.dev = TRUE, !.cpu = "zero", !.bl = "zero"],
     [Retail EXCEPT !.zeroed = TRUE, !.len7 = <<16, 0>>],
     [Retail EXCEPT !.big = TRUE, !.len7 = <<16, 0>>],
     [Retail EXCEPT !.build6 = <<6, 6>>, !.len7 = <<32, 16>>]}}

\* Kits have the right names.
KitName(l, p) == <<"C", Letter(l), p.build>>
Kit(c) ==
  LET p == [l \in DOMAIN Parts(c) \ {c.miss} |-> Parts(c)[l]]
      names == [l \in DOMAIN p |-> KitName(l, p[l])]
  IN  [files  |-> [n \in {names[l] : l \in DOMAIN p} |-> p[CHOOSE l \in DOMAIN p : names[l] = n]],
       vaults |-> [n \in {<<"KV", "dec">>} |-> [Vault(c.alt) EXCEPT !.plain = FALSE]],
       ini    |-> [bl |-> names, kv |-> <<"KV", "dec">>, alt |-> {}, files |-> c.files, big |-> c.big]]

MCKits ==
  {Kit(c) : c \in {[Retail EXCEPT !.len7 = <<16, 16>>, !.files = {1, 2}],
     [Retail EXCEPT !.len7 = <<32, 24>>, !.files = {1, 2}],
     [Retail EXCEPT !.len7 = <<4, 24>>, !.files = {2}],
     [Retail EXCEPT !.len7 = <<24, 16>>, !.files = {2}],
     [Retail EXCEPT !.len7 = <<16, 24>>, !.files = {1}],
     [Retail EXCEPT !.len7 = <<16, 16>>, !.files = {1, 2}, !.big = TRUE],
     [Retail EXCEPT !.len4 = 6, !.len7 = <<16, 0>>, !.files = {1}],
     [Retail EXCEPT !.dual = TRUE], [Retail EXCEPT !.dual = TRUE, !.second = TRUE],
     [Retail EXCEPT !.second = TRUE], [Retail EXCEPT !.dev = TRUE, !.len7 = <<4, 4>>],
     [Retail EXCEPT !.miss = "5BL"]}}

MCCommandLines ==
  {<<"/cpu", "k", "/1bl", "b", "/e", "dir", "img">>, <<"/1bl", "b", "/cpu", "other", "/e", "dir", "img">>,
   <<"/1bl", "b", "/e", "dir", "new">>, <<"/cpu", "k", "/1bl", "b", "/c", "dir", "new">>,
   <<"new", "/c", "dir", "/cpu", "k", "/1bl", "b">>, <<"/rc4", "key", "0", "img">>, <<"/v", "/s", "img">>}
=============================================================================
