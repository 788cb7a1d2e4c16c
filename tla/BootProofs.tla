----------------------------- MODULE BootProofs -----------------------------
(***************************************************************************)
(* The stack comes up in every configuration of its modules: proofs of     *)
(* BootTypeOK and NobodyStuck.                                             *)
(*                                                                         *)
(* One order of all the pipes, Rank, is followed by every process: each    *)
(* main opens its pipes upwards in it (Ascends).  Among processes that     *)
(* wait, the one with the lowest pipe therefore waits for a process that   *)
(* has not come to that pipe, and so stands at a lower one or at none.     *)
(***************************************************************************)
EXTENDS BootProps, WellFoundedInduction, TLAPS

Pipes == Known \X Known

\* Where the pair of an acceptor and a connector stands in the order.
Number(pair) ==
    CASE pair = <<"driver", "ethermux">> -> 20
      [] pair = <<"ethermux", "arp">>    -> 22
      [] pair = <<"ethermux", "ip">>     -> 24
      [] pair = <<"ethermux", "other">>  -> 26
      [] pair = <<"arp", "ip">>          -> 28
      [] pair = <<"ip", "ipmux">>        -> 30
      [] pair = <<"ipmux", "udp">>       -> 32
      [] pair = <<"ipmux", "tcp">>       -> 34
      [] pair = <<"ipmux", "icmp">>      -> 36
      [] pair = <<"ipmux", "ipother">>   -> 38
      [] pair = <<"tcp", "sock">>        -> 40
      [] pair = <<"udp", "sock">>        -> 42
      [] pair = <<"icmp", "sock">>       -> 44
      [] pair = <<"ipother", "sock">>    -> 46
      [] OTHER                           -> 48

\* Where a module stands in the monitor's order.
MonitorNumber(m) ==
    CASE m = "driver"  -> 1 [] m = "ethermux" -> 2  [] m = "ip"   -> 3
      [] m = "arp"     -> 4 [] m = "other"    -> 5  [] m = "ipmux" -> 6
      [] m = "ipother" -> 7 [] m = "icmp"     -> 8  [] m = "udp"  -> 9
      [] m = "tcp"     -> 10 [] m = "sock"    -> 11 [] OTHER      -> 12

\* The order of all the pipes: those of the monitor first, then pair by pair, the
\* pipe that the acceptor writes before the one it reads.
Rank(p) ==
    IF p[2] = "monitor" THEN MonitorNumber(p[1])
    ELSE IF p \in AcceptPairs THEN Number(p) ELSE Number(<<p[2], p[1]>>) + 1

\* s opens its pipes upwards in that order, above lo and not above hi.
Ascends(s, lo, hi) ==
    /\ s \in Seq(Pipes)
    /\ \A i \in 1 .. Len(s) : lo < Rank(s[i]) /\ Rank(s[i]) <= hi
    /\ \A i, j \in 1 .. Len(s) : i < j => Rank(s[i]) < Rank(s[j])

PipesIn(s) == {p \in Pipes : \E i \in 1 .. Len(s) : s[i] = p}

\* The pipes of two modules that are both there.
Between(m, mod) == IF mod \in Modules THEN {Pipe(m, mod), Pipe(mod, m)} ELSE {}

Reports(m) == IF m \in Monitored THEN {Pipe(m, "monitor")} ELSE {}

\* The pipes that have an end at m.
PipesOf(m) ==
    {p \in Pipes : p[1] \in Monitored /\ p[2] = "monitor" /\ m \in {p[1], p[2]}}
    \cup
    {p \in Pipes : /\ p[2] # "monitor" /\ m \in {p[1], p[2]}
                   /\ OtherEnd(m, p) \in Modules
                   /\ <<m, OtherEnd(m, p)>> \in ConnectPairs \cup AcceptPairs}

----------------------------------------------------------------------------
(* The pieces of a script *)

\* A number for every pipe.
LEMMA RankNat == \A p : Rank(p) \in Nat
  BY DEF Rank, Number, MonitorNumber

\* Two parts, the second above the first, one after the other.
LEMMA AppendAscends ==
  ASSUME NEW s, NEW t, NEW a \in Nat, NEW b \in Nat, NEW c \in Nat, NEW d \in Nat,
         Ascends(s, a, b), Ascends(t, c, d), a <= b, b <= c, c <= d
  PROVE  Ascends(s \o t, a, d) /\ PipesIn(s \o t) = PipesIn(s) \cup PipesIn(t)
<1> DEFINE st == s \o t
<1>1. /\ s \in Seq(Pipes) /\ t \in Seq(Pipes) /\ st \in Seq(Pipes)
      /\ Len(st) = Len(s) + Len(t) /\ Len(s) \in Nat /\ Len(t) \in Nat
  BY DEF Ascends
<1>2. \A i \in 1 .. Len(s) : i \in 1 .. Len(st) /\ st[i] = s[i]
  BY <1>1
<1>3. \A i \in 1 .. Len(t) : Len(s) + i \in 1 .. Len(st) /\ st[Len(s) + i] = t[i]
  BY <1>1
<1>4. \A i \in 1 .. Len(st) :
        \/ i \in 1 .. Len(s)
        \/ i - Len(s) \in 1 .. Len(t) /\ st[i] = t[i - Len(s)] /\ i > Len(s)
  BY <1>1
<1> HIDE DEF st
<1>5. PipesIn(st) = PipesIn(s) \cup PipesIn(t)
  <2>1. ASSUME NEW p \in Pipes
        PROVE  (\E i \in 1 .. Len(st) : st[i] = p) <=>
                   \/ \E i \in 1 .. Len(s) : s[i] = p
                   \/ \E i \in 1 .. Len(t) : t[i] = p
    <3>1. ASSUME NEW i \in 1 .. Len(st), st[i] = p
          PROVE  \/ \E k \in 1 .. Len(s) : s[k] = p
                 \/ \E k \in 1 .. Len(t) : t[k] = p
      BY <3>1, <1>2, <1>4
    <3>2. ASSUME NEW i \in 1 .. Len(s), s[i] = p
          PROVE  \E k \in 1 .. Len(st) : st[k] = p
      BY <3>2, <1>2
    <3>3. ASSUME NEW i \in 1 .. Len(t), t[i] = p
          PROVE  \E k \in 1 .. Len(st) : st[k] = p
      BY <3>3, <1>3
    <3> QED BY <3>1, <3>2, <3>3
  <2> QED BY <2>1 DEF PipesIn
<1>6. \A i \in 1 .. Len(st) : a < Rank(st[i]) /\ Rank(st[i]) <= d
  BY <1>2, <1>4, RankNat DEF Ascends
<1>7. ASSUME NEW i \in 1 .. Len(st), NEW j \in 1 .. Len(st), i < j
      PROVE  Rank(st[i]) < Rank(st[j])
  <2>1. CASE i \in 1 .. Len(s) /\ j \in 1 .. Len(s)
    BY <2>1, <1>2, <1>7 DEF Ascends
  <2>2. CASE i \in 1 .. Len(s) /\ j \notin 1 .. Len(s)
    <3>1. Rank(st[i]) <= b
      BY <2>2, <1>2 DEF Ascends
    <3>2. c < Rank(st[j])
      BY <2>2, <1>4 DEF Ascends
    <3> QED BY <3>1, <3>2, RankNat
  <2>3. CASE i \notin 1 .. Len(s)
    <3> DEFINE k == i - Len(s)
               l == j - Len(s)
    <3>1. i > Len(s) /\ j > Len(s) /\ j \notin 1 .. Len(s)
      BY <2>3, <1>1, <1>4, <1>7
    <3>2. k \in 1 .. Len(t) /\ l \in 1 .. Len(t) /\ k < l
      BY <3>1, <2>3, <1>1, <1>4, <1>7
    <3>3. st[i] = t[k] /\ st[j] = t[l]
      BY <3>1, <2>3, <1>4
    <3> HIDE DEF k, l
    <3> QED BY <3>2, <3>3 DEF Ascends
  <2> QED BY <2>1, <2>2, <2>3
<1> QED BY <1>1, <1>5, <1>6, <1>7 DEF Ascends, st

\* MinetAccept of an acceptor, and MinetConnect of its connector.
LEMMA CallAscends ==
  ASSUME NEW a \in Known, NEW c \in Known, <<a, c>> \in AcceptPairs
  PROVE  /\ Ascends(Accept(a, c), Number(<<a, c>>) - 1, Number(<<a, c>>) + 1)
         /\ Ascends(Connect(c, a), Number(<<a, c>>) - 1, Number(<<a, c>>) + 1)
         /\ PipesIn(Accept(a, c)) = Between(a, c)
         /\ PipesIn(Connect(c, a)) = Between(c, a)
<1> DEFINE n == Number(<<a, c>>)
<1>1. n \in Nat /\ a # "monitor" /\ c # "monitor"
  BY DEF Number, AcceptPairs
<1>2. <<c, a>> \notin AcceptPairs
  BY DEF AcceptPairs
<1>3. Rank(Pipe(a, c)) = n /\ Rank(Pipe(c, a)) = n + 1
  BY <1>1, <1>2 DEF Rank, Pipe
<1> DEFINE s == <<Pipe(a, c), Pipe(c, a)>>
<1>4. s \in Seq(Pipes) /\ Len(s) = 2 /\ s[1] = Pipe(a, c) /\ s[2] = Pipe(c, a)
  BY DEF Pipe, Pipes
<1>5. Ascends(s, n - 1, n + 1) /\ PipesIn(s) = {Pipe(a, c), Pipe(c, a)}
  BY <1>1, <1>3, <1>4 DEF Ascends, PipesIn
<1>6. Ascends(<< >>, n - 1, n + 1) /\ PipesIn(<< >>) = {}
  BY DEF Ascends, PipesIn
<1> QED BY <1>5, <1>6 DEF Accept, Connect, Between

\* The report of MinetInit, and its end at the monitor.
LEMMA InitAscends ==
  ASSUME NEW m \in Known \ {"monitor"}
  PROVE  /\ Ascends(MinetInit(m), MonitorNumber(m) - 1, MonitorNumber(m))
         /\ Ascends(MinetInit(m), 0, 12)
         /\ PipesIn(MinetInit(m)) = Reports(m)
<1> DEFINE s == <<Pipe(m, "monitor")>>
<1>1. s \in Seq(Pipes) /\ Len(s) = 1 /\ s[1] = Pipe(m, "monitor")
  BY DEF Pipe, Pipes, Known
<1>2. MonitorNumber(m) \in 1 .. 12 /\ Rank(Pipe(m, "monitor")) = MonitorNumber(m)
  BY DEF MonitorNumber, Rank, Pipe
<1>3. PipesIn(s) = {Pipe(m, "monitor")} /\ PipesIn(<< >>) = {}
  BY <1>1 DEF PipesIn
<1>4. /\ Ascends(s, MonitorNumber(m) - 1, MonitorNumber(m)) /\ Ascends(s, 0, 12)
      /\ Ascends(<< >>, MonitorNumber(m) - 1, MonitorNumber(m))
      /\ Ascends(<< >>, 0, 12)
  BY <1>1, <1>2 DEF Ascends
<1> QED BY <1>3, <1>4 DEF MinetInit, Reports

\* A script goes on upwards with a call whose number is above all it has opened.
LEMMA AddAccept ==
  ASSUME NEW s, NEW hi \in Nat, Ascends(s, 0, hi),
         NEW a \in Known, NEW c \in Known, <<a, c>> \in AcceptPairs,
         NEW n \in Nat, n = Number(<<a, c>>), hi < n
  PROVE  /\ Ascends(s \o Accept(a, c), 0, n + 1)
         /\ PipesIn(s \o Accept(a, c)) = PipesIn(s) \cup Between(a, c)
<1>1. n - 1 \in Nat /\ n + 1 \in Nat /\ hi <= n - 1 /\ n - 1 <= n + 1
  OBVIOUS
<1>2. Ascends(Accept(a, c), n - 1, n + 1) /\ PipesIn(Accept(a, c)) = Between(a, c)
  BY CallAscends
<1> QED BY <1>1, <1>2, AppendAscends

LEMMA AddConnect ==
  ASSUME NEW s, NEW hi \in Nat, Ascends(s, 0, hi),
         NEW a \in Known, NEW c \in Known, <<a, c>> \in AcceptPairs,
         NEW n \in Nat, n = Number(<<a, c>>), hi < n
  PROVE  /\ Ascends(s \o Connect(c, a), 0, n + 1)
         /\ PipesIn(s \o Connect(c, a)) = PipesIn(s) \cup Between(c, a)
<1>1. n - 1 \in Nat /\ n + 1 \in Nat /\ hi <= n - 1 /\ n - 1 <= n + 1
  OBVIOUS
<1>2. Ascends(Connect(c, a), n - 1, n + 1) /\ PipesIn(Connect(c, a)) = Between(c, a)
  BY CallAscends
<1> QED BY <1>1, <1>2, AppendAscends

\* The monitor goes on with a module after the last one.
LEMMA AddReport ==
  ASSUME NEW s, NEW m \in Known \ {"monitor"}, NEW n \in Nat, n = MonitorNumber(m),
         Ascends(s, 0, n - 1), n - 1 \in Nat
  PROVE  /\ Ascends(s \o MinetInit(m), 0, n)
         /\ PipesIn(s \o MinetInit(m)) = PipesIn(s) \cup Reports(m)
BY InitAscends, AppendAscends

----------------------------------------------------------------------------
(* The mains *)

\* DriverMain opens the pipes of its module, upwards.
LEMMA DriverAscends ==
  Ascends(DriverMain, 0, 50) /\ PipesIn(DriverMain) = PipesOf("driver")
<1> DEFINE s0 == MinetInit("driver")
           s1 == s0 \o Accept("driver", "ethermux")
<1>1. Ascends(s0, 0, 12) /\ PipesIn(s0) = Reports("driver")
  BY InitAscends DEF Known
<1> HIDE DEF s0
<1>2. Ascends(s1, 0, 21) /\ PipesIn(s1) = PipesIn(s0) \cup Between("driver", "ethermux")
  <2>1. <<"driver", "ethermux">> \in AcceptPairs /\ Number(<<"driver", "ethermux">>) = 20
    BY DEF AcceptPairs, Number
  <2>2. "driver" \in Known /\ "ethermux" \in Known
    BY DEF Known
  <2> QED BY <1>1, <2>1, <2>2, AddAccept
<1> HIDE DEF s1
<1>3. PipesOf("driver") = Reports("driver")
        \cup Between("driver", "ethermux")
  BY BootAssumption DEF PipesOf, Reports, Between, Pipes, Pipe, Known, OtherEnd,
     ConnectPairs, AcceptPairs
<1>4. DriverMain = s1
  BY DEF DriverMain, s0, s1
<1>5. Ascends(s1, 0, 50)
  BY <1>2, RankNat DEF Ascends
<1> QED BY <1>1, <1>2, <1>3, <1>4, <1>5

\* EtherMuxMain opens the pipes of its module, upwards.
LEMMA EtherMuxAscends ==
  Ascends(EtherMuxMain, 0, 50) /\ PipesIn(EtherMuxMain) = PipesOf("ethermux")
<1> DEFINE s0 == MinetInit("ethermux")
           s1 == s0 \o Connect("ethermux", "driver")
           s2 == s1 \o Accept("ethermux", "arp")
           s3 == s2 \o Accept("ethermux", "ip")
           s4 == s3 \o Accept("ethermux", "other")
<1>1. Ascends(s0, 0, 12) /\ PipesIn(s0) = Reports("ethermux")
  BY InitAscends DEF Known
<1> HIDE DEF s0
<1>2. Ascends(s1, 0, 21) /\ PipesIn(s1) = PipesIn(s0) \cup Between("ethermux", "driver")
  <2>1. <<"driver", "ethermux">> \in AcceptPairs /\ Number(<<"driver", "ethermux">>) = 20
    BY DEF AcceptPairs, Number
  <2>2. "driver" \in Known /\ "ethermux" \in Known
    BY DEF Known
  <2> QED BY <1>1, <2>1, <2>2, AddConnect
<1> HIDE DEF s1
<1>3. Ascends(s2, 0, 23) /\ PipesIn(s2) = PipesIn(s1) \cup Between("ethermux", "arp")
  <2>1. <<"ethermux", "arp">> \in AcceptPairs /\ Number(<<"ethermux", "arp">>) = 22
    BY DEF AcceptPairs, Number
  <2>2. "ethermux" \in Known /\ "arp" \in Known
    BY DEF Known
  <2> QED BY <1>2, <2>1, <2>2, AddAccept
<1> HIDE DEF s2
<1>4. Ascends(s3, 0, 25) /\ PipesIn(s3) = PipesIn(s2) \cup Between("ethermux", "ip")
  <2>1. <<"ethermux", "ip">> \in AcceptPairs /\ Number(<<"ethermux", "ip">>) = 24
    BY DEF AcceptPairs, Number
  <2>2. "ethermux" \in Known /\ "ip" \in Known
    BY DEF Known
  <2> QED BY <1>3, <2>1, <2>2, AddAccept
<1> HIDE DEF s3
<1>5. Ascends(s4, 0, 27) /\ PipesIn(s4) = PipesIn(s3) \cup Between("ethermux", "other")
  <2>1. <<"ethermux", "other">> \in AcceptPairs /\ Number(<<"ethermux", "other">>) = 26
    BY DEF AcceptPairs, Number
  <2>2. "ethermux" \in Known /\ "other" \in Known
    BY DEF Known
  <2> QED BY <1>4, <2>1, <2>2, AddAccept
<1> HIDE DEF s4
<1>6. PipesOf("ethermux") = Reports("ethermux")
        \cup Between("ethermux", "driver")
        \cup Between("ethermux", "arp")
        \cup Between("ethermux", "ip")
        \cup Between("ethermux", "other")
  BY BootAssumption DEF PipesOf, Reports, Between, Pipes, Pipe, Known, OtherEnd,
     ConnectPairs, AcceptPairs
<1>7. EtherMuxMain = s4
  BY DEF EtherMuxMain, s0, s1, s2, s3, s4
<1>8. Ascends(s4, 0, 50)
  BY <1>5, RankNat DEF Ascends
<1> QED BY <1>1, <1>2, <1>3, <1>4, <1>5, <1>6, <1>7, <1>8

\* ArpMain opens the pipes of its module, upwards.
LEMMA ArpAscends ==
  Ascends(ArpMain, 0, 50) /\ PipesIn(ArpMain) = PipesOf("arp")
<1> DEFINE s0 == MinetInit("arp")
           s1 == s0 \o Connect("arp", "ethermux")
           s2 == s1 \o Accept("arp", "ip")
<1>1. Ascends(s0, 0, 12) /\ PipesIn(s0) = Reports("arp")
  BY InitAscends DEF Known
<1> HIDE DEF s0
<1>2. Ascends(s1, 0, 23) /\ PipesIn(s1) = PipesIn(s0) \cup Between("arp", "ethermux")
  <2>1. <<"ethermux", "arp">> \in AcceptPairs /\ Number(<<"ethermux", "arp">>) = 22
    BY DEF AcceptPairs, Number
  <2>2. "ethermux" \in Known /\ "arp" \in Known
    BY DEF Known
  <2> QED BY <1>1, <2>1, <2>2, AddConnect
<1> HIDE DEF s1
<1>3. Ascends(s2, 0, 29) /\ PipesIn(s2) = PipesIn(s1) \cup Between("arp", "ip")
  <2>1. <<"arp", "ip">> \in AcceptPairs /\ Number(<<"arp", "ip">>) = 28
    BY DEF AcceptPairs, Number
  <2>2. "arp" \in Known /\ "ip" \in Known
    BY DEF Known
  <2> QED BY <1>2, <2>1, <2>2, AddAccept
<1> HIDE DEF s2
<1>4. PipesOf("arp") = Reports("arp")
        \cup Between("arp", "ethermux")
        \cup Between("arp", "ip")
  BY BootAssumption DEF PipesOf, Reports, Between, Pipes, Pipe, Known, OtherEnd,
     ConnectPairs, AcceptPairs
<1>5. ArpMain = s2
  BY DEF ArpMain, s0, s1, s2
<1>6. Ascends(s2, 0, 50)
  BY <1>3, RankNat DEF Ascends
<1> QED BY <1>1, <1>2, <1>3, <1>4, <1>5, <1>6

\* IpMain opens the pipes of its module, upwards.
LEMMA IpAscends ==
  Ascends(IpMain, 0, 50) /\ PipesIn(IpMain) = PipesOf("ip")
<1> DEFINE s0 == MinetInit("ip")
           s1 == s0 \o Connect("ip", "ethermux")
           s2 == s1 \o Connect("ip", "arp")
           s3 == s2 \o Accept("ip", "ipmux")
<1>1. Ascends(s0, 0, 12) /\ PipesIn(s0) = Reports("ip")
  BY InitAscends DEF Known
<1> HIDE DEF s0
<1>2. Ascends(s1, 0, 25) /\ PipesIn(s1) = PipesIn(s0) \cup Between("ip", "ethermux")
  <2>1. <<"ethermux", "ip">> \in AcceptPairs /\ Number(<<"ethermux", "ip">>) = 24
    BY DEF AcceptPairs, Number
  <2>2. "ethermux" \in Known /\ "ip" \in Known
    BY DEF Known
  <2> QED BY <1>1, <2>1, <2>2, AddConnect
<1> HIDE DEF s1
<1>3. Ascends(s2, 0, 29) /\ PipesIn(s2) = PipesIn(s1) \cup Between("ip", "arp")
  <2>1. <<"arp", "ip">> \in AcceptPairs /\ Number(<<"arp", "ip">>) = 28
    BY DEF AcceptPairs, Number
  <2>2. "arp" \in Known /\ "ip" \in Known
    BY DEF Known
  <2> QED BY <1>2, <2>1, <2>2, AddConnect
<1> HIDE DEF s2
<1>4. Ascends(s3, 0, 31) /\ PipesIn(s3) = PipesIn(s2) \cup Between("ip", "ipmux")
  <2>1. <<"ip", "ipmux">> \in AcceptPairs /\ Number(<<"ip", "ipmux">>) = 30
    BY DEF AcceptPairs, Number
  <2>2. "ip" \in Known /\ "ipmux" \in Known
    BY DEF Known
  <2> QED BY <1>3, <2>1, <2>2, AddAccept
<1> HIDE DEF s3
<1>5. PipesOf("ip") = Reports("ip")
        \cup Between("ip", "ethermux")
        \cup Between("ip", "arp")
        \cup Between("ip", "ipmux")
  BY BootAssumption DEF PipesOf, Reports, Between, Pipes, Pipe, Known, OtherEnd,
     ConnectPairs, AcceptPairs
<1>6. IpMain = s3
  BY DEF IpMain, s0, s1, s2, s3
<1>7. Ascends(s3, 0, 50)
  BY <1>4, RankNat DEF Ascends
<1> QED BY <1>1, <1>2, <1>3, <1>4, <1>5, <1>6, <1>7

\* OtherMain opens the pipes of its module, upwards.
LEMMA OtherAscends ==
  Ascends(OtherMain, 0, 50) /\ PipesIn(OtherMain) = PipesOf("other")
<1> DEFINE s0 == MinetInit("other")
           s1 == s0 \o Connect("other", "ethermux")
<1>1. Ascends(s0, 0, 12) /\ PipesIn(s0) = Reports("other")
  BY InitAscends DEF Known
<1> HIDE DEF s0
<1>2. Ascends(s1, 0, 27) /\ PipesIn(s1) = PipesIn(s0) \cup Between("other", "ethermux")
  <2>1. <<"ethermux", "other">> \in AcceptPairs /\ Number(<<"ethermux", "other">>) = 26
    BY DEF AcceptPairs, Number
  <2>2. "ethermux" \in Known /\ "other" \in Known
    BY DEF Known
  <2> QED BY <1>1, <2>1, <2>2, AddConnect
<1> HIDE DEF s1
<1>3. PipesOf("other") = Reports("other")
        \cup Between("other", "ethermux")
  BY BootAssumption DEF PipesOf, Reports, Between, Pipes, Pipe, Known, OtherEnd,
     ConnectPairs, AcceptPairs
<1>4. OtherMain = s1
  BY DEF OtherMain, s0, s1
<1>5. Ascends(s1, 0, 50)
  BY <1>2, RankNat DEF Ascends
<1> QED BY <1>1, <1>2, <1>3, <1>4, <1>5

\* IpMuxMain opens the pipes of its module, upwards.
LEMMA IpMuxAscends ==
  Ascends(IpMuxMain, 0, 50) /\ PipesIn(IpMuxMain) = PipesOf("ipmux")
<1> DEFINE s0 == MinetInit("ipmux")
           s1 == s0 \o Connect("ipmux", "ip")
           s2 == s1 \o Accept("ipmux", "udp")
           s3 == s2 \o Accept("ipmux", "tcp")
           s4 == s3 \o Accept("ipmux", "icmp")
           s5 == s4 \o Accept("ipmux", "ipother")
<1>1. Ascends(s0, 0, 12) /\ PipesIn(s0) = Reports("ipmux")
  BY InitAscends DEF Known
<1> HIDE DEF s0
<1>2. Ascends(s1, 0, 31) /\ PipesIn(s1) = PipesIn(s0) \cup Between("ipmux", "ip")
  <2>1. <<"ip", "ipmux">> \in AcceptPairs /\ Number(<<"ip", "ipmux">>) = 30
    BY DEF AcceptPairs, Number
  <2>2. "ip" \in Known /\ "ipmux" \in Known
    BY DEF Known
  <2> QED BY <1>1, <2>1, <2>2, AddConnect
<1> HIDE DEF s1
<1>3. Ascends(s2, 0, 33) /\ PipesIn(s2) = PipesIn(s1) \cup Between("ipmux", "udp")
  <2>1. <<"ipmux", "udp">> \in AcceptPairs /\ Number(<<"ipmux", "udp">>) = 32
    BY DEF AcceptPairs, Number
  <2>2. "ipmux" \in Known /\ "udp" \in Known
    BY DEF Known
  <2> QED BY <1>2, <2>1, <2>2, AddAccept
<1> HIDE DEF s2
<1>4. Ascends(s3, 0, 35) /\ PipesIn(s3) = PipesIn(s2) \cup Between("ipmux", "tcp")
  <2>1. <<"ipmux", "tcp">> \in AcceptPairs /\ Number(<<"ipmux", "tcp">>) = 34
    BY DEF AcceptPairs, Number
  <2>2. "ipmux" \in Known /\ "tcp" \in Known
    BY DEF Known
  <2> QED BY <1>3, <2>1, <2>2, AddAccept
<1> HIDE DEF s3
<1>5. Ascends(s4, 0, 37) /\ PipesIn(s4) = PipesIn(s3) \cup Between("ipmux", "icmp")
  <2>1. <<"ipmux", "icmp">> \in AcceptPairs /\ Number(<<"ipmux", "icmp">>) = 36
    BY DEF AcceptPairs, Number
  <2>2. "ipmux" \in Known /\ "icmp" \in Known
    BY DEF Known
  <2> QED BY <1>4, <2>1, <2>2, AddAccept
<1> HIDE DEF s4
<1>6. Ascends(s5, 0, 39) /\ PipesIn(s5) = PipesIn(s4) \cup Between("ipmux", "ipother")
  <2>1. <<"ipmux", "ipother">> \in AcceptPairs /\ Number(<<"ipmux", "ipother">>) = 38
    BY DEF AcceptPairs, Number
  <2>2. "ipmux" \in Known /\ "ipother" \in Known
    BY DEF Known
  <2> QED BY <1>5, <2>1, <2>2, AddAccept
<1> HIDE DEF s5
<1>7. PipesOf("ipmux") = Reports("ipmux")
        \cup Between("ipmux", "ip")
        \cup Between("ipmux", "udp")
        \cup Between("ipmux", "tcp")
        \cup Between("ipmux", "icmp")
        \cup Between("ipmux", "ipother")
  BY BootAssumption DEF PipesOf, Reports, Between, Pipes, Pipe, Known, OtherEnd,
     ConnectPairs, AcceptPairs
<1>8. IpMuxMain = s5
  BY DEF IpMuxMain, s0, s1, s2, s3, s4, s5
<1>9. Ascends(s5, 0, 50)
  BY <1>6, RankNat DEF Ascends
<1> QED BY <1>1, <1>2, <1>3, <1>4, <1>5, <1>6, <1>7, <1>8, <1>9

\* IcmpMain opens the pipes of its module, upwards.
LEMMA IcmpAscends ==
  Ascends(IcmpMain, 0, 50) /\ PipesIn(IcmpMain) = PipesOf("icmp")
<1> DEFINE s0 == MinetInit("icmp")
           s1 == s0 \o Connect("icmp", "ipmux")
           s2 == s1 \o Accept("icmp", "sock")
<1>1. Ascends(s0, 0, 12) /\ PipesIn(s0) = Reports("icmp")
  BY InitAscends DEF Known
<1> HIDE DEF s0
<1>2. Ascends(s1, 0, 37) /\ PipesIn(s1) = PipesIn(s0) \cup Between("icmp", "ipmux")
  <2>1. <<"ipmux", "icmp">> \in AcceptPairs /\ Number(<<"ipmux", "icmp">>) = 36
    BY DEF AcceptPairs, Number
  <2>2. "ipmux" \in Known /\ "icmp" \in Known
    BY DEF Known
  <2> QED BY <1>1, <2>1, <2>2, AddConnect
<1> HIDE DEF s1
<1>3. Ascends(s2, 0, 45) /\ PipesIn(s2) = PipesIn(s1) \cup Between("icmp", "sock")
  <2>1. <<"icmp", "sock">> \in AcceptPairs /\ Number(<<"icmp", "sock">>) = 44
    BY DEF AcceptPairs, Number
  <2>2. "icmp" \in Known /\ "sock" \in Known
    BY DEF Known
  <2> QED BY <1>2, <2>1, <2>2, AddAccept
<1> HIDE DEF s2
<1>4. PipesOf("icmp") = Reports("icmp")
        \cup Between("icmp", "ipmux")
        \cup Between("icmp", "sock")
  BY BootAssumption DEF PipesOf, Reports, Between, Pipes, Pipe, Known, OtherEnd,
     ConnectPairs, AcceptPairs
<1>5. IcmpMain = s2
  BY DEF IcmpMain, s0, s1, s2
<1>6. Ascends(s2, 0, 50)
  BY <1>3, RankNat DEF Ascends
<1> QED BY <1>1, <1>2, <1>3, <1>4, <1>5, <1>6

\* UdpMain opens the pipes of its module, upwards.
LEMMA UdpAscends ==
  Ascends(UdpMain, 0, 50) /\ PipesIn(UdpMain) = PipesOf("udp")
<1> DEFINE s0 == MinetInit("udp")
           s1 == s0 \o Connect("udp", "ipmux")
           s2 == s1 \o Accept("udp", "sock")
<1>1. Ascends(s0, 0, 12) /\ PipesIn(s0) = Reports("udp")
  BY InitAscends DEF Known
<1> HIDE DEF s0
<1>2. Ascends(s1, 0, 33) /\ PipesIn(s1) = PipesIn(s0) \cup Between("udp", "ipmux")
  <2>1. <<"ipmux", "udp">> \in AcceptPairs /\ Number(<<"ipmux", "udp">>) = 32
    BY DEF AcceptPairs, Number
  <2>2. "ipmux" \in Known /\ "udp" \in Known
    BY DEF Known
  <2> QED BY <1>1, <2>1, <2>2, AddConnect
<1> HIDE DEF s1
<1>3. Ascends(s2, 0, 43) /\ PipesIn(s2) = PipesIn(s1) \cup Between("udp", "sock")
  <2>1. <<"udp", "sock">> \in AcceptPairs /\ Number(<<"udp", "sock">>) = 42
    BY DEF AcceptPairs, Number
  <2>2. "udp" \in Known /\ "sock" \in Known
    BY DEF Known
  <2> QED BY <1>2, <2>1, <2>2, AddAccept
<1> HIDE DEF s2
<1>4. PipesOf("udp") = Reports("udp")
        \cup Between("udp", "ipmux")
        \cup Between("udp", "sock")
  BY BootAssumption DEF PipesOf, Reports, Between, Pipes, Pipe, Known, OtherEnd,
     ConnectPairs, AcceptPairs
<1>5. UdpMain = s2
  BY DEF UdpMain, s0, s1, s2
<1>6. Ascends(s2, 0, 50)
  BY <1>3, RankNat DEF Ascends
<1> QED BY <1>1, <1>2, <1>3, <1>4, <1>5, <1>6

\* TcpMain opens the pipes of its module, upwards.
LEMMA TcpAscends ==
  Ascends(TcpMain, 0, 50) /\ PipesIn(TcpMain) = PipesOf("tcp")
<1> DEFINE s0 == MinetInit("tcp")
           s1 == s0 \o Connect("tcp", "ipmux")
           s2 == s1 \o Accept("tcp", "sock")
<1>1. Ascends(s0, 0, 12) /\ PipesIn(s0) = Reports("tcp")
  BY InitAscends DEF Known
<1> HIDE DEF s0
<1>2. Ascends(s1, 0, 35) /\ PipesIn(s1) = PipesIn(s0) \cup Between("tcp", "ipmux")
  <2>1. <<"ipmux", "tcp">> \in AcceptPairs /\ Number(<<"ipmux", "tcp">>) = 34
    BY DEF AcceptPairs, Number
  <2>2. "ipmux" \in Known /\ "tcp" \in Known
    BY DEF Known
  <2> QED BY <1>1, <2>1, <2>2, AddConnect
<1> HIDE DEF s1
<1>3. Ascends(s2, 0, 41) /\ PipesIn(s2) = PipesIn(s1) \cup Between("tcp", "sock")
  <2>1. <<"tcp", "sock">> \in AcceptPairs /\ Number(<<"tcp", "sock">>) = 40
    BY DEF AcceptPairs, Number
  <2>2. "tcp" \in Known /\ "sock" \in Known
    BY DEF Known
  <2> QED BY <1>2, <2>1, <2>2, AddAccept
<1> HIDE DEF s2
<1>4. PipesOf("tcp") = Reports("tcp")
        \cup Between("tcp", "ipmux")
        \cup Between("tcp", "sock")
  BY BootAssumption DEF PipesOf, Reports, Between, Pipes, Pipe, Known, OtherEnd,
     ConnectPairs, AcceptPairs
<1>5. TcpMain = s2
  BY DEF TcpMain, s0, s1, s2
<1>6. Ascends(s2, 0, 50)
  BY <1>3, RankNat DEF Ascends
<1> QED BY <1>1, <1>2, <1>3, <1>4, <1>5, <1>6

\* IpOtherMain opens the pipes of its module, upwards.
LEMMA IpOtherAscends ==
  Ascends(IpOtherMain, 0, 50) /\ PipesIn(IpOtherMain) = PipesOf("ipother")
<1> DEFINE s0 == MinetInit("ipother")
           s1 == s0 \o Connect("ipother", "ipmux")
           s2 == s1 \o Accept("ipother", "sock")
<1>1. Ascends(s0, 0, 12) /\ PipesIn(s0) = Reports("ipother")
  BY InitAscends DEF Known
<1> HIDE DEF s0
<1>2. Ascends(s1, 0, 39) /\ PipesIn(s1) = PipesIn(s0) \cup Between("ipother", "ipmux")
  <2>1. <<"ipmux", "ipother">> \in AcceptPairs /\ Number(<<"ipmux", "ipother">>) = 38
    BY DEF AcceptPairs, Number
  <2>2. "ipmux" \in Known /\ "ipother" \in Known
    BY DEF Known
  <2> QED BY <1>1, <2>1, <2>2, AddConnect
<1> HIDE DEF s1
<1>3. Ascends(s2, 0, 47) /\ PipesIn(s2) = PipesIn(s1) \cup Between("ipother", "sock")
  <2>1. <<"ipother", "sock">> \in AcceptPairs /\ Number(<<"ipother", "sock">>) = 46
    BY DEF AcceptPairs, Number
  <2>2. "ipother" \in Known /\ "sock" \in Known
    BY DEF Known
  <2> QED BY <1>2, <2>1, <2>2, AddAccept
<1> HIDE DEF s2
<1>4. PipesOf("ipother") = Reports("ipother")
        \cup Between("ipother", "ipmux")
        \cup Between("ipother", "sock")
  BY BootAssumption DEF PipesOf, Reports, Between, Pipes, Pipe, Known, OtherEnd,
     ConnectPairs, AcceptPairs
<1>5. IpOtherMain = s2
  BY DEF IpOtherMain, s0, s1, s2
<1>6. Ascends(s2, 0, 50)
  BY <1>3, RankNat DEF Ascends
<1> QED BY <1>1, <1>2, <1>3, <1>4, <1>5, <1>6

\* SockMain opens the pipes of its module, upwards.
LEMMA SockAscends ==
  Ascends(SockMain, 0, 50) /\ PipesIn(SockMain) = PipesOf("sock")
<1> DEFINE s0 == MinetInit("sock")
           s1 == s0 \o Connect("sock", "tcp")
           s2 == s1 \o Connect("sock", "udp")
           s3 == s2 \o Connect("sock", "icmp")
           s4 == s3 \o Connect("sock", "ipother")
           s5 == s4 \o Accept("sock", "socklib")
<1>1. Ascends(s0, 0, 12) /\ PipesIn(s0) = Reports("sock")
  BY InitAscends DEF Known
<1> HIDE DEF s0
<1>2. Ascends(s1, 0, 41) /\ PipesIn(s1) = PipesIn(s0) \cup Between("sock", "tcp")
  <2>1. <<"tcp", "sock">> \in AcceptPairs /\ Number(<<"tcp", "sock">>) = 40
    BY DEF AcceptPairs, Number
  <2>2. "tcp" \in Known /\ "sock" \in Known
    BY DEF Known
  <2> QED BY <1>1, <2>1, <2>2, AddConnect
<1> HIDE DEF s1
<1>3. Ascends(s2, 0, 43) /\ PipesIn(s2) = PipesIn(s1) \cup Between("sock", "udp")
  <2>1. <<"udp", "sock">> \in AcceptPairs /\ Number(<<"udp", "sock">>) = 42
    BY DEF AcceptPairs, Number
  <2>2. "udp" \in Known /\ "sock" \in Known
    BY DEF Known
  <2> QED BY <1>2, <2>1, <2>2, AddConnect
<1> HIDE DEF s2
<1>4. Ascends(s3, 0, 45) /\ PipesIn(s3) = PipesIn(s2) \cup Between("sock", "icmp")
  <2>1. <<"icmp", "sock">> \in AcceptPairs /\ Number(<<"icmp", "sock">>) = 44
    BY DEF AcceptPairs, Number
  <2>2. "icmp" \in Known /\ "sock" \in Known
    BY DEF Known
  <2> QED BY <1>3, <2>1, <2>2, AddConnect
<1> HIDE DEF s3
<1>5. Ascends(s4, 0, 47) /\ PipesIn(s4) = PipesIn(s3) \cup Between("sock", "ipother")
  <2>1. <<"ipother", "sock">> \in AcceptPairs /\ Number(<<"ipother", "sock">>) = 46
    BY DEF AcceptPairs, Number
  <2>2. "ipother" \in Known /\ "sock" \in Known
    BY DEF Known
  <2> QED BY <1>4, <2>1, <2>2, AddConnect
<1> HIDE DEF s4
<1>6. Ascends(s5, 0, 49) /\ PipesIn(s5) = PipesIn(s4) \cup Between("sock", "socklib")
  <2>1. <<"sock", "socklib">> \in AcceptPairs /\ Number(<<"sock", "socklib">>) = 48
    BY DEF AcceptPairs, Number
  <2>2. "sock" \in Known /\ "socklib" \in Known
    BY DEF Known
  <2> QED BY <1>5, <2>1, <2>2, AddAccept
<1> HIDE DEF s5
<1>7. PipesOf("sock") = Reports("sock")
        \cup Between("sock", "tcp")
        \cup Between("sock", "udp")
        \cup Between("sock", "icmp")
        \cup Between("sock", "ipother")
        \cup Between("sock", "socklib")
  BY BootAssumption DEF PipesOf, Reports, Between, Pipes, Pipe, Known, OtherEnd,
     ConnectPairs, AcceptPairs
<1>8. SockMain = s5
  BY DEF SockMain, s0, s1, s2, s3, s4, s5
<1>9. Ascends(s5, 0, 50)
  BY <1>6, RankNat DEF Ascends
<1> QED BY <1>1, <1>2, <1>3, <1>4, <1>5, <1>6, <1>7, <1>8, <1>9

\* SocklibMain opens the pipes of its module, upwards.
LEMMA SocklibAscends ==
  Ascends(SocklibMain, 0, 50) /\ PipesIn(SocklibMain) = PipesOf("socklib")
<1> DEFINE s0 == MinetInit("socklib")
           s1 == s0 \o Connect("socklib", "sock")
<1>1. Ascends(s0, 0, 12) /\ PipesIn(s0) = Reports("socklib")
  BY InitAscends DEF Known
<1> HIDE DEF s0
<1>2. Ascends(s1, 0, 49) /\ PipesIn(s1) = PipesIn(s0) \cup Between("socklib", "sock")
  <2>1. <<"sock", "socklib">> \in AcceptPairs /\ Number(<<"sock", "socklib">>) = 48
    BY DEF AcceptPairs, Number
  <2>2. "sock" \in Known /\ "socklib" \in Known
    BY DEF Known
  <2> QED BY <1>1, <2>1, <2>2, AddConnect
<1> HIDE DEF s1
<1>3. PipesOf("socklib") = Reports("socklib")
        \cup Between("socklib", "sock")
  BY BootAssumption DEF PipesOf, Reports, Between, Pipes, Pipe, Known, OtherEnd,
     ConnectPairs, AcceptPairs
<1>4. SocklibMain = s1
  BY DEF SocklibMain, s0, s1
<1>5. Ascends(s1, 0, 50)
  BY <1>2, RankNat DEF Ascends
<1> QED BY <1>1, <1>2, <1>3, <1>4, <1>5

\* So does MonitorMain.
LEMMA MonitorAscends ==
  Ascends(MonitorMain, 0, 50) /\ PipesIn(MonitorMain) = PipesOf("monitor")
<1> DEFINE s1 == MinetInit("driver")
           s2 == s1 \o MinetInit("ethermux")
           s3 == s2 \o MinetInit("ip")
           s4 == s3 \o MinetInit("arp")
           s5 == s4 \o MinetInit("other")
           s6 == s5 \o MinetInit("ipmux")
           s7 == s6 \o MinetInit("ipother")
           s8 == s7 \o MinetInit("icmp")
           s9 == s8 \o MinetInit("udp")
           s10 == s9 \o MinetInit("tcp")
           s11 == s10 \o MinetInit("sock")
           s12 == s11 \o MinetInit("socklib")
<1>1. Ascends(s1, 0, 1) /\ PipesIn(s1) = Reports("driver")
  BY InitAscends DEF Known, MonitorNumber
<1> HIDE DEF s1
<1>2. Ascends(s2, 0, 2) /\ PipesIn(s2) = PipesIn(s1) \cup Reports("ethermux")
  BY <1>1, AddReport DEF Known, MonitorNumber
<1> HIDE DEF s2
<1>3. Ascends(s3, 0, 3) /\ PipesIn(s3) = PipesIn(s2) \cup Reports("ip")
  BY <1>2, AddReport DEF Known, MonitorNumber
<1> HIDE DEF s3
<1>4. Ascends(s4, 0, 4) /\ PipesIn(s4) = PipesIn(s3) \cup Reports("arp")
  BY <1>3, AddReport DEF Known, MonitorNumber
<1> HIDE DEF s4
<1>5. Ascends(s5, 0, 5) /\ PipesIn(s5) = PipesIn(s4) \cup Reports("other")
  BY <1>4, AddReport DEF Known, MonitorNumber
<1> HIDE DEF s5
<1>6. Ascends(s6, 0, 6) /\ PipesIn(s6) = PipesIn(s5) \cup Reports("ipmux")
  BY <1>5, AddReport DEF Known, MonitorNumber
<1> HIDE DEF s6
<1>7. Ascends(s7, 0, 7) /\ PipesIn(s7) = PipesIn(s6) \cup Reports("ipother")
  BY <1>6, AddReport DEF Known, MonitorNumber
<1> HIDE DEF s7
<1>8. Ascends(s8, 0, 8) /\ PipesIn(s8) = PipesIn(s7) \cup Reports("icmp")
  BY <1>7, AddReport DEF Known, MonitorNumber
<1> HIDE DEF s8
<1>9. Ascends(s9, 0, 9) /\ PipesIn(s9) = PipesIn(s8) \cup Reports("udp")
  BY <1>8, AddReport DEF Known, MonitorNumber
<1> HIDE DEF s9
<1>10. Ascends(s10, 0, 10) /\ PipesIn(s10) = PipesIn(s9) \cup Reports("tcp")
  BY <1>9, AddReport DEF Known, MonitorNumber
<1> HIDE DEF s10
<1>11. Ascends(s11, 0, 11) /\ PipesIn(s11) = PipesIn(s10) \cup Reports("sock")
  BY <1>10, AddReport DEF Known, MonitorNumber
<1> HIDE DEF s11
<1>12. Ascends(s12, 0, 12) /\ PipesIn(s12) = PipesIn(s11) \cup Reports("socklib")
  BY <1>11, AddReport DEF Known, MonitorNumber
<1> HIDE DEF s12
<1>13. PipesOf("monitor") = UNION {Reports(m) : m \in Known \ {"monitor"}}
  BY BootAssumption DEF PipesOf, Reports, Pipes, Pipe, Known, OtherEnd,
     ConnectPairs, AcceptPairs
<1>14. UNION {Reports(m) : m \in Known \ {"monitor"}} = PipesIn(s12)
  BY <1>1, <1>2, <1>3, <1>4, <1>5, <1>6, <1>7, <1>8, <1>9, <1>10, <1>11, <1>12 DEF Known
<1>15. MonitorMain = s12
  BY DEF MonitorMain, s1, s2, s3, s4, s5, s6, s7, s8, s9, s10, s11, s12
<1>16. Ascends(s12, 0, 50)
  BY <1>12, RankNat DEF Ascends
<1> QED BY <1>13, <1>14, <1>15, <1>16

\* Every script does.
LEMMA ScriptAscends ==
  ASSUME NEW m \in Known
  PROVE  Ascends(Script(m), 0, 50) /\ PipesIn(Script(m)) = PipesOf(m)
BY DriverAscends, EtherMuxAscends, ArpAscends, IpAscends, OtherAscends, IpMuxAscends,
   IcmpAscends, UdpAscends, TcpAscends, IpOtherAscends, SockAscends, SocklibAscends,
   MonitorAscends
   DEF Script, Known

----------------------------------------------------------------------------
(* Types *)

\* A pipe of a script has its process at one end, a module at the other, and joins a
\* pair that the calls know.
LEMMA ScriptPipes ==
  ASSUME NEW m \in Modules, NEW i \in 1 .. Len(Script(m))
  PROVE  LET p == Script(m)[i] IN
           /\ p \in PipesOf(m) /\ m \in {p[1], p[2]} /\ OtherEnd(m, p) \in Modules
           /\ p[2] # "monitor" => <<m, OtherEnd(m, p)>> \in ConnectPairs \cup AcceptPairs
<1> DEFINE p == Script(m)[i]
<1>1. m \in Known /\ Ascends(Script(m), 0, 50) /\ PipesIn(Script(m)) = PipesOf(m)
  BY ScriptAscends, BootAssumption
<1>2. p \in Pipes
  BY <1>1 DEF Ascends
<1>3. p \in PipesOf(m)
  BY <1>1, <1>2 DEF PipesIn
<1> HIDE DEF p
<1>4. m \in {p[1], p[2]} /\ OtherEnd(m, p) \in Modules
  BY <1>3, BootAssumption DEF PipesOf, OtherEnd
<1>5. p[2] # "monitor" => <<m, OtherEnd(m, p)>> \in ConnectPairs \cup AcceptPairs
  BY <1>3 DEF PipesOf
<1> QED BY <1>3, <1>4, <1>5 DEF p

\* The script of a module is a sequence.
LEMMA ScriptLen ==
  ASSUME NEW m \in Modules
  PROVE  Len(Script(m)) \in Nat /\ DOMAIN Script(m) = 1 .. Len(Script(m))
<1>1. Script(m) \in Seq(Pipes)
  BY ScriptAscends, BootAssumption DEF Ascends
<1> QED BY <1>1

\* What every process has opened is a part of its script.
Positions ==
    /\ pos \in [Modules -> Nat]
    /\ \A m \in Modules : pos[m] <= Len(Script(m))
    /\ dead \subseteq Modules
    /\ deinit \in BOOLEAN

LEMMA InitPositions == Init => Positions
<1> SUFFICES ASSUME Init PROVE Positions
  OBVIOUS
<1>1. pos \in [Modules -> Nat] /\ \A m \in Modules : pos[m] = 0
  BY DEF Init
<1>2. ASSUME NEW m \in Modules
      PROVE  0 <= Len(Script(m))
  <2>1. Len(Script(m)) \in Nat
    BY ScriptLen
  <2> QED BY <2>1
<1> QED BY <1>1, <1>2 DEF Init, Positions

LEMMA NextPositions ==
  ASSUME Positions, [Next]_vars
  PROVE  Positions'
<1> USE DEF Positions
<1>1. ASSUME NEW m \in Modules, Opens(m)
      PROVE  Positions'
  BY <1>1, ScriptLen DEF Opens, InLoop, ReportDue
<1>2. ASSUME NEW m \in Modules, HearsEnd(m)
      PROVE  Positions'
  BY <1>2 DEF HearsEnd
<1>3. ASSUME NEW m \in Modules, ReportFails(m)
      PROVE  Positions'
  BY <1>3 DEF ReportFails
<1>4. ASSUME NEW m \in Modules, Crashes(m)
      PROVE  Positions'
  BY <1>4 DEF Crashes
<1>5. CASE AppDeinit
  BY <1>5 DEF AppDeinit
<1>6. CASE UNCHANGED vars
  BY <1>6 DEF vars
<1> QED BY <1>1, <1>2, <1>3, <1>4, <1>5, <1>6 DEF Next

LEMMA PositionsType ==
  ASSUME Positions
  PROVE  BootTypeOK
BY ScriptPipes, ScriptLen DEF Positions, BootTypeOK

LEMMA PositionsHold == Spec => []Positions
BY InitPositions, NextPositions, PTL DEF Spec

\* In every configuration of the modules each main calls MinetConnect and
\* MinetAccept only for pairs they know, each pipe is opened by the two processes it
\* joins, and no process opens more than its script.
THEOREM BootTypeCorrect == Spec => []BootTypeOK
BY PositionsHold, PositionsType, PTL

----------------------------------------------------------------------------
(* Nobody waits for ever *)

\* The two ends of a pipe both have it in their scripts.
LEMMA BothEnds ==
  ASSUME NEW m \in Modules, NEW p \in PipesOf(m), NEW q, q = OtherEnd(m, p)
  PROVE  p \in PipesOf(q) /\ OtherEnd(q, p) = m
BY BootAssumption DEF PipesOf, OtherEnd, Pipes, ConnectPairs, AcceptPairs

\* A process that waits for one that waits too stands above it in the order.
LEMMA WaitsForLower ==
  ASSUME Positions, dead = {}, NEW m \in Waiting, NEW q, q = OtherEnd(m, NextPipe(m)),
         q \in Waiting
  PROVE  Rank(NextPipe(q)) < Rank(NextPipe(m))
<1> DEFINE p == NextPipe(m)
<1>1. /\ m \in Modules /\ q \in Modules /\ m \in Known /\ q \in Known
      /\ pos[m] + 1 \in 1 .. Len(Script(m)) /\ pos[q] + 1 \in 1 .. Len(Script(q))
  BY ScriptLen, BootAssumption DEF Waiting, Positions, InLoop
<1>2. p \in PipesOf(m)
  BY <1>1, ScriptPipes DEF NextPipe
<1>3. p \in PipesOf(q)
  BY <1>1, <1>2, BothEnds
<1>4. PICK j \in 1 .. Len(Script(q)) : Script(q)[j] = p
  BY <1>1, <1>3, ScriptAscends DEF PipesIn
<1>5. ~ HasOpened(q, p) /\ NextPipe(q) # p
  BY <1>1 DEF Waiting, IsAt
<1>6. j > pos[q] + 1
  <2>1. j \notin 1 .. pos[q]
    BY <1>4, <1>5 DEF HasOpened
  <2>2. j # pos[q] + 1
    BY <1>4, <1>5 DEF NextPipe
  <2>3. pos[q] \in Nat /\ j \in Nat
    BY <1>1, <1>4, ScriptLen DEF Positions
  <2> QED BY <2>1, <2>2, <2>3, <1>4
<1>7. Rank(Script(q)[pos[q] + 1]) < Rank(Script(q)[j])
  BY <1>1, <1>4, <1>6, ScriptAscends DEF Ascends
<1> QED BY <1>4, <1>7 DEF NextPipe

\* A set of naturals that is not empty has a least element.
LEMMA Least ==
  ASSUME NEW T \in SUBSET Nat, T # {}
  PROVE  \E n \in T : \A k \in T : n <= k
<1> DEFINE R == OpToRel(<, Nat)
<1>1. IsWellFoundedOn(R, Nat)
  BY NatLessThanWellFounded
<1>2. \A k, n \in Nat : k < n => <<k, n>> \in R
  BY DEF OpToRel
<1> HIDE DEF R
<1>3. PICK n \in T : \A k \in T : ~ (<<k, n>> \in R)
  BY <1>1, WFMin
<1>4. ASSUME NEW k \in T
      PROVE  n <= k
  <2>1. n \in Nat /\ k \in Nat
    OBVIOUS
  <2>2. ~ (k < n)
    BY <1>2, <1>3, <2>1
  <2> QED BY <2>1, <2>2
<1> QED BY <1>4

\* Among processes that wait, one waits for a process that is not among them.
LEMMA PositionsFree ==
  ASSUME Positions
  PROVE  NobodyStuck
<1> SUFFICES ASSUME dead = {}, NEW S \in SUBSET Waiting, S # {}
             PROVE  \E m \in S : OtherEnd(m, NextPipe(m)) \notin S
  BY DEF NobodyStuck
<1> DEFINE T == {Rank(NextPipe(m)) : m \in S}
<1>1. T \in SUBSET Nat /\ T # {}
  BY RankNat
<1>2. PICK n \in T : \A k \in T : n <= k
  BY <1>1, Least
<1>3. PICK m \in S : n = Rank(NextPipe(m))
  BY <1>2
<1>4. \A q \in S : Rank(NextPipe(q)) >= Rank(NextPipe(m))
  BY <1>2, <1>3
<1>5. ASSUME OtherEnd(m, NextPipe(m)) \in S
      PROVE  FALSE
  BY <1>4, <1>5, WaitsForLower, RankNat
<1> QED BY <1>5

\* However the processes of a configuration start, none of them waits for ever
\* while nobody has ended: the orders in which the mains, the monitor and the two
\* calls open the pipes of the stack admit no circle of processes that wait.
THEOREM NobodyStuckCorrect == Spec => []NobodyStuck
BY PositionsHold, PositionsFree, PTL
=============================================================================
