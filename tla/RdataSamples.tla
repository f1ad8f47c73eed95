---------------------------- MODULE RdataSamples ----------------------------
(* Samples of every class: its fields take, one at a time, the values of    *)
(* their kind, and the value of reference when another field varies.        *)
EXTENDS RdataSpecials

Alnum == <<97, 49>>
FieldSamples(c, f) ==
  CASE c = "GPOS" -> {<<57, 48>>, <<45, 57, 48, 46, 49>>, <<46, 53>>, <<43>>, <<52, 46, 46>>}
    [] f.k = "uint" -> {1, 0, f.most, f.most + 1}
    [] f.k = "words" -> {Rep(0, f.w), Rep(65535, f.w), [i \in 1..f.w |-> i]}
    [] f.k = "name" -> {<<>>, <<<<97>>, <<66, 0>>>>, <<Rep(90, 63), <<46>>>>}
    [] f.k = "counted" /\ f.form = "word" -> {Alnum, <<>>, <<45>>, Rep(65, 256)}
    [] f.k = "counted" -> {Alnum, <<>>, <<34, 92, 31>>, <<200>>, Rep(65, 80), Rep(65, 256)}
    [] f.k = "optional" -> {Alnum, <<>>, <<200, 1>>}
    [] f.k = "fixed" -> {[i \in 1..f.n |-> i], Rep(255, f.n)}
    [] f.k = "rest" -> {Alnum, <<>>, <<34>>, <<92, 92>>, <<200>>}
    [] f.k = "many" -> {<<Alnum>>, <<<<>>, <<200, 34>>>>, <<Rep(65, 256)>>, <<>>}
    [] f.k = "digest" -> {<<t, Rep(7, n)>> : t \in 0..5, n \in {0, 1, 20, 32, 48, 64}}
    [] f.k = "relaytype" -> {<<0, 0>>}
    [] f.k = "gateway" -> {<<>>}
    [] f.k = "bitmap" -> {<<<<0, <<64>>>>>>, <<>>, <<<<0, <<1, 128>>>>, <<1, <<2>>>>>>, <<<<0, <<128>>>>>>,
                          <<<<3, <<255, 0>>>>>>, <<<<5, <<0>>>>>>, <<<<255, Rep(0, 31) \o <<1>>>>>>}
    [] f.k = "ports" -> {<<0, 64>>, <<>>, <<5, 0>>}
    [] f.k = "hip" -> {<<h, 2, k, s>> : h \in {<<>>, <<1, 2>>, Rep(63, 255)}, k \in {<<>>, <<9>>},
                       s \in {<<>>, <<<<<<97>>>>, <<<<66>>, <<98>>>>>>}}
    [] f.k = "loc" ->
         LET Loc(a, h, s) == [lat |-> a, long |-> <<180, 0, 0, 0, -1>>, alt |-> <<h, h>>, sizes |-> s]
         IN {Loc(a, Ground, s) :
               a \in {<<0, 0, 0, 0, 1>>, <<45, 59, 1, 999, -1>>, <<90, 0, 0, 0, 1>>, <<90, 0, 0, 1, 1>>},
               s \in {DefaultSizes, <<<<0, 0>>, <<9, 9>>, <<12, 1>>>>, <<<<25, 9>>, <<1, 0>>, <<1, 0>>>>}}
            \cup {Loc(<<0, 0, 0, 0, 1>>, h, DefaultSizes) :
                    h \in {<<152, 38528 + n>> : n \in {-29, 28, 29, 110}}
                         \cup {<<0, 0>>, <<32767, 65535>>, <<40000, 9>>, <<65535, 65535>>}}
    [] f.k = "prefixes" ->
         LET P(fam, neg, a, n) == [family |-> fam, negation |-> neg, address |-> a, prefix |-> n]
         IN {<<>>, <<P(1, FALSE, <<10, 0, 0, 0>>, 8)>>, <<P(1, TRUE, <<0, 0, 0, 0>>, 33)>>,
             <<P(2, TRUE, [i \in 1..16 |-> i], 128), P(1, FALSE, <<1, 2, 3, 4>>, 32)>>,
             <<P(3, FALSE, <<1, 0>>, 255)>>, <<P(0, TRUE, Rep(1, 63), 0)>>}
    [] f.k = "params" ->
         {<<>>, <<<<3, 443>>>>, <<<<0, <<1, 4>>>>, <<1, <<<<104, 50>>, <<44, 34, 92>>>>>>, <<2, <<>>>>, <<4, <<<<1, 2, 3, 4>>>>>>>>,
          <<<<0, <<3>>>>>>, <<<<2, <<>>>>>>, <<<<0, <<>>>>>>, <<<<1, <<<<200>>>>>>>>, <<<<1, <<>>>>>>, <<<<4, <<>>>>, <<6, <<Rep(1, 16)>>>>>>,
          <<<<5, <<>>>>, <<7, <<200, 34>>>>, <<8, <<>>>>, <<9, <<>>>>>>}
    [] f.k = "options" ->
         {<<>>, <<<<3, <<1>>>>, <<12, <<>>>>>>, <<<<8, [family |-> 1, src |-> 20, scope |-> 0, address |-> <<1, 2, 16>>]>>>>,
          <<<<10, [client |-> Rep(1, 8), server |-> Rep(2, 8)]>>>>, <<<<15, [code |-> 9, text |-> <<111, 107>>]>>>>,
          <<<<18, <<<<97>>>>>>>>}

Reference(c, f) == CHOOSE v \in FieldSamples(c, f) : TRUE
MCSamples ==
  [c \in Classes |->
     LET fs == Schema[c]
         base == [i \in DOMAIN fs |-> Reference(c, fs[i])]
         varied == UNION {{[base EXCEPT ![i] = v] : v \in FieldSamples(c, fs[i])} : i \in DOMAIN fs}
         Octets4 == <<1, 2, 3, 4>>
         gateways == {<<0, <<>>>>, <<1, Octets4>>, <<1, <<>>>>, <<2, Rep(9, 16)>>, <<2, Octets4>>,
                      <<3, <<<<97>>>>>>, <<3, <<>>>>, <<4, <<>>>>}
         key == {<<>>, <<7>>}
     IN CASE c = "IPSECKEY" -> {<<1, g[1], 2, g[2], k>> : g \in gateways, k \in key}
          [] c = "AMTRELAY" -> {<<1, <<d, g[1]>>, g[2]>> : d \in 0..2, g \in gateways}
          [] c \in {"SVCB", "HTTPS"} -> {<<p, <<>>, ps>> : p \in 0..1, ps \in FieldSamples(c, Special("params"))}
          [] c = "CAA" -> varied \cup {<<0, Alnum, v>> : v \in FieldSamples(c, Rest("string"))}
          [] c = "URI" -> varied \cup {<<0, 1, v>> : v \in FieldSamples(c, Rest("raw"))}
          [] OTHER -> varied]
=============================================================================
