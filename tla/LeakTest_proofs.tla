--------------------------- MODULE LeakTest_proofs ---------------------------
(***************************************************************************)
(* The results and the packed NG counters of Mersm_LeakTest.c are right    *)
(* for any number of ports that fits the byte, however cycles are stopped, *)
(* refused or ended early.  What carries the proof: within a cycle each    *)
(* port is measured once, in rising order, so that whatever is known of a  *)
(* port when its result is published was published in an earlier cycle.    *)
(***************************************************************************)
EXTENDS LeakTest, TLAPS

(***************************************************************************)
(* The invariant.                                                          *)
(***************************************************************************)

\* The byte in which exactly the ports of a set are counted, once each.
Counter(ports, p) == IF p \in ports THEN 1 ELSE 0

Packed(ports) == Counter(ports, 1) + 4 * Counter(ports, 2)
                 + 16 * Counter(ports, 3) + 64 * Counter(ports, 4)

\* Everything that was found in this cycle was found at ports that are measured
\* before stage s: the results, the leaks at high pressure, and, once drying was
\* asked for, the ports that are counted again.
FoundBefore(s) ==
  /\ \A p \in PortSet, r \in {"OK", "NG"} : <<p, r>> \in vbRes => 2 * p + 2 <= s
  /\ \A p \in highNG : 2 * p + 2 <= s
  /\ needDry => \A p \in before : 2 * p + 2 <= s

Ordered == (phase = "high" /\ sub # 0) => FoundBefore(sub)

\* Nothing is published before the high-pressure measurement.
NotYet == phase \in {"prepare", "low", "raise"} => vbRes = {} /\ ~needDry

\* Of each port at most one result, and that of the measurements.
Agree ==
  \A p \in PortSet : /\ <<p, "NG">> \in vbRes => p \in lowNG \cup highNG
                     /\ <<p, "OK">> \in vbRes => p \notin lowNG \cup highNG

LeakInv ==
  /\ TypeOK /\ ngCount = Packed(before) /\ all.low = lowNG
  /\ NotYet /\ Ordered /\ OneResult
  /\ phase \in {"high", "drain"} => Agree

(***************************************************************************)
(* The stages and the two bits of each port.                               *)
(***************************************************************************)

\* A measuring stage measures one of the ports, and the stages follow the ports.
LEMMA MeasuringStages ==
  /\ LastMeas \in Nat /\ LastMeas = 2 * Ports + 1 /\ Meas(LastMeas)
  /\ \A s \in 1..LastMeas :
       Meas(s) => PortOf(s) \in PortSet /\ s = 2 * PortOf(s) + 1
<1>1. Ports \in Nat /\ Ports >= 1
  BY PortsAssumption
<1>2. LastMeas = 2 * Ports + 1
  BY <1>1 DEF LastMeas, SubMax
<1>3. Meas(LastMeas)
  BY <1>1, <1>2 DEF Meas
<1>4. ASSUME NEW s \in 1..LastMeas, Meas(s)
      PROVE  PortOf(s) \in PortSet /\ s = 2 * PortOf(s) + 1
  <2>1. s \in Nat /\ s >= 3 /\ s % 2 = 1 /\ s <= 2 * Ports + 1
    BY <1>1, <1>2, <1>4 DEF Meas
  <2>2. s = 2 * ((s - 1) \div 2) + 1
    BY <2>1
  <2>3. (s - 1) \div 2 \in 1..Ports
    BY <1>1, <2>1, <2>2
  <2>4. QED
    BY <2>2, <2>3 DEF PortOf, PortSet
<1>5. QED
  BY <1>1, <1>2, <1>3, <1>4

\* The place of each pair of bits.
LEMMA Units ==
  /\ Unit(1) = 1 /\ Unit(2) = 4 /\ Unit(3) = 16 /\ Unit(4) = 64
  /\ \A p \in PortSet : p \in 1..4
<1>1. Ports \in Nat /\ Ports <= 4
  BY PortsAssumption, FourPorts
<1>2. \A p \in PortSet : p \in 1..4
  BY <1>1 DEF PortSet
<1>3. QED
  BY <1>2 DEF Unit

\* The pairs of a byte are read apart: no pair of up to two carries into another.
LEMMA PairsApart ==
  ASSUME NEW a \in 0..2, NEW b \in 0..2, NEW c \in 0..2, NEW d \in 0..2,
         NEW n, n = a + 4 * b + 16 * c + 64 * d
  PROVE  /\ n \in 0..255 /\ n % 256 = n
         /\ NgOf(n, 1) = a /\ NgOf(n, 2) = b /\ NgOf(n, 3) = c /\ NgOf(n, 4) = d
<1>1. n \in 0..255 /\ n % 256 = n
  OBVIOUS
<1>2. (n \div 1) % 4 = a
  OBVIOUS
<1>3. (n \div 4) % 4 = b
  OBVIOUS
<1>4. (n \div 16) % 4 = c
  OBVIOUS
<1>5. (n \div 64) % 4 = d
  OBVIOUS
<1>6. QED
  BY <1>1, <1>2, <1>3, <1>4, <1>5, Units DEF NgOf
(***************************************************************************)
(* addNgCount and clearNgCount.                                            *)
(***************************************************************************)

\* The byte in which the ports of a set are counted once is read back.
LEMMA PackedRead ==
  ASSUME NEW ports
  PROVE  /\ Packed(ports) \in 0..255
         /\ \A p \in PortSet : NgOf(Packed(ports), p) = Counter(ports, p)
<1>1. \A p : Counter(ports, p) \in 0..1
  BY DEF Counter
<1>2. \A p \in 1..4 : Counter(ports, p) \in 0..2
  BY <1>1
<1>3. /\ Packed(ports) \in 0..255
      /\ NgOf(Packed(ports), 1) = Counter(ports, 1) /\ NgOf(Packed(ports), 2) = Counter(ports, 2)
      /\ NgOf(Packed(ports), 3) = Counter(ports, 3) /\ NgOf(Packed(ports), 4) = Counter(ports, 4)
  <2>1. /\ Counter(ports, 1) \in 0..2 /\ Counter(ports, 2) \in 0..2
        /\ Counter(ports, 3) \in 0..2 /\ Counter(ports, 4) \in 0..2
    BY <1>2
  <2>2. QED
    BY <2>1, PairsApart DEF Packed
<1>4. QED
  BY <1>3, Units

\* One more NG of a port: its pair is one higher, the other pairs are untouched.
LEMMA OneMore ==
  ASSUME NEW ports, NEW p \in PortSet
  PROVE  LET sum == (Packed(ports) + Unit(p)) % 256
         IN  /\ sum = Packed(ports) + Unit(p)
             /\ \A q \in PortSet :
                  NgOf(sum, q) = Counter(ports, q) + (IF q = p THEN 1 ELSE 0)
<1> DEFINE c(q) == Counter(ports, q) + (IF q = p THEN 1 ELSE 0)
<1>1. \A q : Counter(ports, q) \in 0..1
  BY DEF Counter
<1>2. c(1) \in 0..2 /\ c(2) \in 0..2 /\ c(3) \in 0..2 /\ c(4) \in 0..2
  BY <1>1
<1>3. Packed(ports) + Unit(p) = c(1) + 4 * c(2) + 16 * c(3) + 64 * c(4)
  <2>1. p \in 1..4
    BY Units
  <2>2. QED
    BY <1>1, <2>1, Units DEF Packed
<1>4. QED
  <2> DEFINE n == Packed(ports) + Unit(p)
  <2>1. /\ n % 256 = n /\ NgOf(n, 1) = c(1) /\ NgOf(n, 2) = c(2)
        /\ NgOf(n, 3) = c(3) /\ NgOf(n, 4) = c(4)
    <3> HIDE DEF c
    <3>1. QED
      BY <1>2, <1>3, PairsApart
  <2>2. \A q \in PortSet : NgOf(n, q) = c(q)
    <3> HIDE DEF c, n
    <3>1. QED
      BY <2>1, Units
  <2>3. QED
    BY <2>1, <2>2

\* The first NG of a port is counted and asks for nothing.
LEMMA FirstNG ==
  ASSUME NEW ports, NEW p \in PortSet, p \notin ports
  PROVE  /\ ~AsksDry(Packed(ports), p)
         /\ AddNg(Packed(ports), p) = Packed(ports \cup {p})
<1> DEFINE sum == (Packed(ports) + Unit(p)) % 256
<1>1. \A q \in PortSet : NgOf(sum, q) = Counter(ports, q) + (IF q = p THEN 1 ELSE 0)
  BY OneMore
<1>2. \A q \in PortSet : NgOf(sum, q) \in 0..1
  BY <1>1 DEF Counter
<1>3. ~Twice(sum)
  BY <1>2 DEF Twice
<1>4. sum = Packed(ports \cup {p})
  <2>1. sum = Packed(ports) + Unit(p) /\ p \in 1..4
    BY OneMore, Units
  <2>2. \A q : Counter(ports \cup {p}, q) = Counter(ports, q) + (IF q = p THEN 1 ELSE 0)
    BY DEF Counter
  <2>3. \A q : Counter(ports, q) \in 0..1
    BY DEF Counter
  <2>4. Packed(ports \cup {p}) = Packed(ports) + Unit(p)
    <3> HIDE DEF sum
    <3>1. p = 1 \/ p = 2 \/ p = 3 \/ p = 4
      BY <2>1
    <3>2. QED
      BY <2>2, <2>3, <3>1, Units DEF Packed
  <2>5. QED
    BY <2>1, <2>4
<1>5. QED
  BY <1>3, <1>4 DEF AsksDry, AddNg

\* The second one in a row asks for drying, and all ports start again.
LEMMA SecondNG ==
  ASSUME NEW ports, NEW p \in PortSet, p \in ports
  PROVE  AsksDry(Packed(ports), p) /\ AddNg(Packed(ports), p) = Packed({})
<1>1. NgOf((Packed(ports) + Unit(p)) % 256, p) = 2
  BY OneMore DEF Counter
<1>2. Twice((Packed(ports) + Unit(p)) % 256)
  BY <1>1 DEF Twice
<1>3. Packed({}) = 0
  BY DEF Packed, Counter
<1>4. QED
  BY <1>2, <1>3 DEF AsksDry, AddNg

\* An OK takes the port out of the byte and leaves the others.
LEMMA OKCleared ==
  ASSUME NEW ports, NEW p \in PortSet
  PROVE  ClearNg(Packed(ports), p) = Packed(ports \ {p})
<1>1. NgOf(Packed(ports), p) = Counter(ports, p)
  BY PackedRead
<1>2. \A q : Counter(ports, q) \in 0..1
  BY DEF Counter
<1>3. \A q : Counter(ports \ {p}, q) = IF q = p THEN 0 ELSE Counter(ports, q)
  BY DEF Counter
<1>4. p \in 1..4
  BY Units
<1>5. Packed(ports) - Counter(ports, p) * Unit(p) = Packed(ports \ {p})
  BY <1>2, <1>3, <1>4, Units DEF Packed
<1>6. QED
  BY <1>1, <1>5 DEF ClearNg
(***************************************************************************)
(* The end of a measuring stage.                                           *)
(***************************************************************************)

\* Publishing the result of the port measured now keeps the counters right, and
\* asks for drying when it is the port's second NG in a row.
LEMMA Published ==
  ASSUME LeakInv, phase = "high", sub \in 1..LastMeas, Meas(sub),
         NEW p \in PortSet, p = PortOf(sub), NEW ng \in BOOLEAN, Publish(p, ng)
  PROVE  /\ ngCount' = Packed(before') /\ ngCount' \in 0..255
         /\ needDry' \in BOOLEAN /\ before' \subseteq PortSet
         /\ vbRes' = vbRes \cup {<<p, IF ng THEN "NG" ELSE "OK">>}
         /\ needDry' => \A q \in before' : 2 * q + 2 <= sub + 1
         /\ (ng /\ p \in before) => needDry'
<1>1. sub = 2 * p + 1 /\ p \in Nat /\ sub # 0 /\ 2 * p + 2 <= sub + 1
  <2>1. sub = 2 * p + 1
    BY MeasuringStages
  <2>2. p \in Nat
    BY PortsAssumption DEF PortSet
  <2>3. sub # 0 /\ 2 * p + 2 <= sub + 1
    BY <2>1, <2>2
  <2>4. QED
    BY <2>1, <2>2, <2>3
<1>2. FoundBefore(sub) /\ ngCount = Packed(before) /\ before \subseteq PortSet
  BY <1>1 DEF LeakInv, Ordered, TypeOK
<1>3. needDry \in BOOLEAN
  BY DEF LeakInv, TypeOK
<1>4. ASSUME needDry, p \in before PROVE FALSE
  BY <1>1, <1>2, <1>4 DEF FoundBefore
<1>5. \A q \in before : needDry => 2 * q + 2 <= sub + 1
  <2>1. \A q \in PortSet : q \in Nat
    BY PortsAssumption DEF PortSet
  <2>2. QED
    BY <1>1, <1>2, <2>1 DEF FoundBefore
<1>6. vbRes' = vbRes \cup {<<p, IF ng THEN "NG" ELSE "OK">>}
  BY DEF Publish
<1>7. CASE ~ng
  <2>1. needDry' = needDry /\ before' = before \ {p}
    BY <1>3, <1>7 DEF Publish
  <2>2. ngCount' = Packed(before')
    BY <1>2, <1>7, <2>1, OKCleared DEF Publish
  <2>3. QED
    BY <1>2, <1>3, <1>5, <1>6, <1>7, <2>1, <2>2, PackedRead
<1>8. CASE ng /\ p \notin before
  <2>1. ~AsksDry(ngCount, p) /\ AddNg(ngCount, p) = Packed(before \cup {p})
    BY <1>2, <1>8, FirstNG
  <2>2. needDry' = needDry /\ before' = before \cup {p}
    BY <1>3, <1>8, <2>1 DEF Publish
  <2>3. ngCount' = Packed(before')
    BY <1>8, <2>1, <2>2 DEF Publish
  <2>4. ASSUME NEW q \in before', needDry' PROVE 2 * q + 2 <= sub + 1
    <3>1. CASE q \in before
      BY <1>5, <2>2, <2>4, <3>1
    <3>2. CASE q = p
      BY <1>1, <3>2
    <3>3. QED
      BY <2>2, <2>4, <3>1, <3>2
  <2>5. QED
    BY <1>2, <1>3, <1>6, <1>8, <2>2, <2>3, <2>4, PackedRead
<1>9. CASE ng /\ p \in before
  <2>1. AsksDry(ngCount, p) /\ AddNg(ngCount, p) = Packed({})
    BY <1>2, <1>9, SecondNG
  <2>2. needDry' = TRUE /\ needDry = FALSE
    BY <1>3, <1>4, <1>9, <2>1 DEF Publish
  <2>3. before' = {}
    BY <2>2 DEF Publish
  <2>4. ngCount' = Packed(before')
    BY <1>9, <2>1, <2>3 DEF Publish
  <2>5. QED
    BY <1>6, <2>2, <2>3, <2>4, PackedRead
<1>10. QED
  BY <1>7, <1>8, <1>9

\* A measurement at low pressure changes nothing but its results.
LEMMA RecordedLow ==
  ASSUME LeakInv, phase = "low", sub \in 1..LastMeas, Meas(sub),
         NEW leaks \in SUBSET {PortOf(sub)}, Record(leaks)
  PROVE  /\ lowNG' \subseteq PortSet /\ all' = [low |-> lowNG', high |-> {}]
         /\ UNCHANGED <<highNG, ngCount, vbRes, needDry, before>>
<1>1. leaks \subseteq PortSet
  BY MeasuringStages
<1>2. QED
  BY <1>1 DEF Record, LeakInv, TypeOK

\* A measurement at high pressure publishes the port's only result of this cycle.
LEMMA RecordedHigh ==
  ASSUME LeakInv, phase = "high", sub \in 1..LastMeas, Meas(sub),
         NEW leaks \in SUBSET {PortOf(sub)}, Record(leaks),
         NEW s \in Nat, s = sub + 1
  PROVE  /\ ngCount' = Packed(before') /\ ngCount' \in 0..255
         /\ UNCHANGED lowNG /\ all'.low = lowNG /\ highNG' \subseteq PortSet
         /\ all' \in [low : SUBSET PortSet, high : SUBSET PortSet]
         /\ vbRes' \subseteq PortSet \X {"OK", "NG"} /\ needDry' \in BOOLEAN
         /\ before' \subseteq PortSet
         /\ FoundBefore(s)' /\ OneResult' /\ Agree'
         /\ \A q \in PortSet : (q \in before /\ <<q, "NG">> \in vbRes' \ vbRes) => needDry'
<1> DEFINE p == PortOf(sub)
           ng == FinalNG(p, leaks)
<1>1. p \in PortSet /\ sub = 2 * p + 1 /\ sub # 0
  BY MeasuringStages
<1>2. \A q \in PortSet : q \in Nat
  BY PortsAssumption DEF PortSet
<1>3. FoundBefore(sub) /\ all.low = lowNG /\ OneResult /\ Agree
  BY <1>1 DEF LeakInv, Ordered
<1>4. /\ highNG \subseteq PortSet /\ lowNG \subseteq PortSet
      /\ vbRes \subseteq PortSet \X {"OK", "NG"}
      /\ all \in [low : SUBSET PortSet, high : SUBSET PortSet]
  BY DEF LeakInv, TypeOK
<1>5. /\ highNG' = highNG \cup leaks /\ UNCHANGED lowNG
      /\ all' = [all EXCEPT !.high = @ \cup (highNG \cup leaks)]
      /\ Publish(p, ng)
  BY DEF Record
<1>6. ng \in BOOLEAN /\ (ng <=> p \in leaks \/ p \in lowNG)
  BY <1>3 DEF FinalNG
<1>7. /\ ngCount' = Packed(before') /\ ngCount' \in 0..255
      /\ needDry' \in BOOLEAN /\ before' \subseteq PortSet
      /\ vbRes' = vbRes \cup {<<p, IF ng THEN "NG" ELSE "OK">>}
      /\ needDry' => \A q \in before' : 2 * q + 2 <= sub + 1
      /\ (ng /\ p \in before) => needDry'
  <2> HIDE DEF ng
  <2>1. QED
    BY <1>1, <1>5, <1>6, Published
<1>8. highNG' \subseteq PortSet /\ all' \in [low : SUBSET PortSet, high : SUBSET PortSet]
      /\ all'.low = lowNG
  BY <1>1, <1>3, <1>4, <1>5
<1>9. vbRes' \subseteq PortSet \X {"OK", "NG"}
  BY <1>1, <1>4, <1>7
<1>10. ASSUME NEW r \in {"OK", "NG"} PROVE <<p, r>> \notin vbRes
  <2>1. ~(2 * p + 2 <= sub)
    BY <1>1, <1>2
  <2>2. QED
    BY <1>1, <1>3, <2>1 DEF FoundBefore
<1>11. p \notin highNG
  BY <1>1, <1>2, <1>3 DEF FoundBefore
<1>12. \A q \in PortSet : \A r : <<q, r>> \in vbRes' <=>
          \/ <<q, r>> \in vbRes
          \/ q = p /\ r = (IF ng THEN "NG" ELSE "OK")
  BY <1>7
<1>13. FoundBefore(s)'
  <2>1. ASSUME NEW q \in PortSet, NEW r \in {"OK", "NG"}, <<q, r>> \in vbRes'
        PROVE  2 * q + 2 <= s
    <3>1. <<q, r>> \in vbRes \/ q = p
      BY <1>12, <2>1
    <3>2. CASE <<q, r>> \in vbRes
      <4>1. 2 * q + 2 <= sub
        BY <1>3, <3>2 DEF FoundBefore
      <4>2. QED
        BY <1>2, <4>1
    <3>3. CASE q = p
      BY <1>1, <1>2, <3>3
    <3>4. QED
      BY <3>1, <3>2, <3>3
  <2>2. \A q \in highNG' : 2 * q + 2 <= s
    BY <1>1, <1>2, <1>3, <1>4, <1>5 DEF FoundBefore
  <2>3. needDry' => \A q \in before' : 2 * q + 2 <= s
    BY <1>7
  <2>4. QED
    BY <2>1, <2>2, <2>3 DEF FoundBefore
<1>14. OneResult'
  <2>1. ASSUME NEW q \in PortSet, <<q, "OK">> \in vbRes', <<q, "NG">> \in vbRes'
        PROVE  FALSE
    <3>1. CASE q = p
      BY <1>10, <1>12, <2>1, <3>1
    <3>2. CASE q # p
      BY <1>3, <1>12, <2>1, <3>2 DEF OneResult
    <3>3. QED
      BY <3>1, <3>2
  <2>2. QED
    BY <2>1 DEF OneResult
<1>15. Agree'
  <2>1. ASSUME NEW q \in PortSet
        PROVE  /\ <<q, "NG">> \in vbRes' => q \in lowNG' \cup highNG'
               /\ <<q, "OK">> \in vbRes' => q \notin lowNG' \cup highNG'
    <3>1. CASE q = p
      <4>1. q \in lowNG' \cup highNG' <=> ng
        BY <1>5, <1>6, <1>11, <3>1
      <4>2. QED
        BY <1>10, <1>12, <3>1, <4>1
    <3>2. CASE q # p
      <4>1. q \in lowNG' \cup highNG' <=> q \in lowNG \cup highNG
        BY <1>5, <3>2
      <4>2. QED
        BY <1>3, <1>12, <3>2, <4>1 DEF Agree
    <3>3. QED
      BY <3>1, <3>2
  <2>2. QED
    BY <2>1 DEF Agree
<1>16. \A q \in PortSet : (q \in before /\ <<q, "NG">> \in vbRes' \ vbRes) => needDry'
  BY <1>7, <1>12
<1>17. QED
  BY <1>5, <1>7, <1>8, <1>9, <1>13, <1>14, <1>15, <1>16
(***************************************************************************)
(* Every step keeps the invariant.                                         *)
(***************************************************************************)

\* A step that leaves what was found as it is keeps what is said of it.
LEMMA NothingFound ==
  ASSUME LeakInv, UNCHANGED <<lowNG, highNG, all, ngCount, vbRes, needDry, before>>
  PROVE  /\ lowNG' \subseteq PortSet /\ highNG' \subseteq PortSet
         /\ all' \in [low : SUBSET PortSet, high : SUBSET PortSet]
         /\ ngCount' \in 0..255 /\ vbRes' \subseteq PortSet \X {"OK", "NG"}
         /\ needDry' \in BOOLEAN /\ before' \subseteq PortSet
         /\ ngCount' = Packed(before') /\ all'.low = lowNG' /\ OneResult'
         /\ Agree' <=> Agree
         /\ \A s : FoundBefore(s) => FoundBefore(s)'
<1>1. Agree' <=> Agree
  BY DEF Agree
<1>2. \A s : FoundBefore(s) => FoundBefore(s)'
  BY DEF FoundBefore
<1>3. OneResult'
  BY DEF LeakInv, OneResult
<1>4. QED
  BY <1>1, <1>2, <1>3 DEF LeakInv, TypeOK

\* The next stage is the one after the stage that ends.
LEMMA NextOrdered ==
  ASSUME sub \in Nat, sub' \in {0, sub + 1}, UNCHANGED phase,
         \A s \in Nat : phase = "high" /\ s = sub + 1 => FoundBefore(s)'
  PROVE  Ordered'
<1>1. CASE sub' = 0
  BY <1>1 DEF Ordered
<1>2. CASE sub' = sub + 1
  <2>1. \A s \in Nat : phase = "high" /\ s = sub' => FoundBefore(s)'
    BY <1>2
  <2>2. sub' \in Nat
    BY <1>2
  <2>3. QED
    BY <2>1, <2>2 DEF Ordered, FoundBefore
<1>3. QED
  BY <1>1, <1>2

\* The end of a stage: the measurement goes on with the next one or is over.
LEMMA StageEnds ==
  ASSUME LeakInv, phase \in {"low", "high"}, UNCHANGED phase,
         sub \in 1..LastMeas, sub' \in {0, sub + 1}, sub' \in 0..LastMeas, cond' \in 0..2,
         \/ Meas(sub) /\ \E leaks \in SUBSET {PortOf(sub)} : Record(leaks)
         \/ NoRecord
  PROVE  LeakInv'
<1>1. LastMeas \in Nat /\ sub \in Nat /\ sub # 0
  BY MeasuringStages
<1>2. CASE NoRecord
  <2>1. phase = "high" => Agree'
    BY <1>2, NothingFound DEF NoRecord, LeakInv
  <2>2. Ordered'
    <3>1. ASSUME phase = "high", NEW s \in Nat, s = sub + 1 PROVE FoundBefore(s)'
      <4>1. \A p \in PortSet : p \in Nat
        BY PortsAssumption DEF PortSet
      <4>2. FoundBefore(sub) /\ highNG \subseteq PortSet /\ before \subseteq PortSet
        BY <1>1, <3>1 DEF LeakInv, TypeOK, Ordered
      <4>3. \A p \in PortSet : 2 * p + 2 <= sub => 2 * p + 2 <= s
        BY <1>1, <3>1, <4>1
      <4>4. FoundBefore(s)
        BY <4>2, <4>3 DEF FoundBefore
      <4>5. QED
        BY <1>2, <4>4, NothingFound DEF NoRecord
    <3>2. QED
      BY <1>1, <3>1, NextOrdered
  <2>3. NotYet'
    BY <1>2 DEF NoRecord, NotYet, LeakInv
  <2>4. TypeOK'
    BY <1>2, NothingFound DEF NoRecord, LeakInv, TypeOK
  <2>5. QED
    BY <1>2, <2>1, <2>2, <2>3, <2>4, NothingFound DEF NoRecord, LeakInv
<1>3. ASSUME phase = "low", Meas(sub), NEW leaks \in SUBSET {PortOf(sub)}, Record(leaks)
      PROVE  LeakInv'
  <2>1. /\ lowNG' \subseteq PortSet /\ all' = [low |-> lowNG', high |-> {}]
        /\ UNCHANGED <<highNG, ngCount, vbRes, needDry, before>>
    BY <1>3, RecordedLow
  <2>2. TypeOK'
    BY <2>1 DEF LeakInv, TypeOK
  <2>3. NotYet' /\ Ordered'
    BY <1>3, <2>1 DEF LeakInv, NotYet, Ordered
  <2>4. OneResult'
    BY <2>1 DEF LeakInv, OneResult
  <2>5. phase' \notin {"high", "drain"}
    BY <1>3
  <2>6. ngCount' = Packed(before') /\ all'.low = lowNG'
    BY <2>1 DEF LeakInv
  <2>7. QED
    BY <2>2, <2>3, <2>4, <2>5, <2>6 DEF LeakInv
<1>4. ASSUME phase = "high", Meas(sub), NEW leaks \in SUBSET {PortOf(sub)}, Record(leaks)
      PROVE  LeakInv'
  <2> DEFINE s == sub + 1
  <2>1. /\ ngCount' = Packed(before') /\ ngCount' \in 0..255
        /\ UNCHANGED lowNG /\ all'.low = lowNG /\ highNG' \subseteq PortSet
        /\ all' \in [low : SUBSET PortSet, high : SUBSET PortSet]
        /\ vbRes' \subseteq PortSet \X {"OK", "NG"} /\ needDry' \in BOOLEAN
        /\ before' \subseteq PortSet /\ OneResult' /\ Agree'
    <3>1. s \in Nat
      BY <1>1
    <3>2. QED
      BY <1>4, <3>1, RecordedHigh
  <2>2. TypeOK'
    BY <2>1 DEF LeakInv, TypeOK
  <2>3. NotYet'
    BY <1>4 DEF NotYet
  <2>4. Ordered'
    <3>1. \A n \in Nat : n = sub + 1 => FoundBefore(n)'
      BY <1>4, RecordedHigh
    <3>2. QED
      BY <1>1, <3>1, NextOrdered
  <2>5. QED
    BY <2>1, <2>2, <2>3, <2>4 DEF LeakInv
<1>5. QED
  BY <1>2, <1>3, <1>4

\* A step in which no stage of a measurement ends.
LEMMA OtherSteps ==
  ASSUME LeakInv,
         \/ \E accepted \in BOOLEAN : StartCycle(accepted)
         \/ EnterLow \/ EnterHigh \/ EndLow \/ EndHigh \/ EndCycle
  PROVE  LeakInv'
<1>1. ASSUME NEW accepted \in BOOLEAN, StartCycle(accepted) PROVE LeakInv'
  <2>1. /\ phase' \in {"stop", "prepare"} /\ vbRes' = {} /\ ~needDry' /\ needDry' = FALSE
        /\ UNCHANGED <<sub, cond, lowNG, highNG, all, ngCount, before>>
    BY <1>1 DEF StartCycle
  <2>2. TypeOK' /\ NotYet' /\ Ordered'
    BY <2>1 DEF LeakInv, TypeOK, Phases, NotYet, Ordered
  <2>3. OneResult'
    BY <2>1 DEF OneResult
  <2>4. ngCount' = Packed(before') /\ all'.low = lowNG' /\ phase' \notin {"high", "drain"}
    BY <2>1 DEF LeakInv
  <2>5. QED
    BY <2>2, <2>3, <2>4 DEF LeakInv
<1>2. CASE EnterLow
  <2>1. 1 \in 0..LastMeas
    BY MeasuringStages, PortsAssumption
  <2>2. /\ phase' = "low" /\ sub' = 1 /\ cond' = 0 /\ lowNG' = {} /\ all' = [low |-> {}, high |-> {}]
        /\ UNCHANGED <<highNG, ngCount, vbRes, needDry, before>>
    BY <1>2 DEF EnterLow
  <2>3. TypeOK'
    BY <2>1, <2>2 DEF LeakInv, TypeOK, Phases
  <2>4. NotYet' /\ Ordered'
    BY <1>2, <2>2 DEF LeakInv, NotYet, Ordered, EnterLow
  <2>5. OneResult'
    BY <2>2 DEF LeakInv, OneResult
  <2>6. ngCount' = Packed(before') /\ all'.low = lowNG' /\ phase' \notin {"high", "drain"}
    BY <2>2 DEF LeakInv
  <2>7. QED
    BY <2>3, <2>4, <2>5, <2>6 DEF LeakInv
<1>3. CASE EnterHigh
  <2>1. 1 \in 0..LastMeas
    BY MeasuringStages, PortsAssumption
  <2>2. /\ phase' = "high" /\ sub' = 1 /\ cond' = 0 /\ highNG' = {}
        /\ UNCHANGED <<lowNG, all, ngCount, vbRes, needDry, before>>
    BY <1>3 DEF EnterHigh
  <2>3. vbRes' = {} /\ ~needDry'
    BY <1>3, <2>2 DEF LeakInv, NotYet, EnterHigh
  <2>4. TypeOK' /\ NotYet'
    BY <2>1, <2>2 DEF LeakInv, TypeOK, Phases, NotYet
  <2>5. Ordered'
    BY <2>2, <2>3 DEF Ordered, FoundBefore
  <2>6. OneResult' /\ Agree'
    BY <2>3 DEF OneResult, Agree
  <2>7. ngCount' = Packed(before') /\ all'.low = lowNG'
    BY <2>2 DEF LeakInv
  <2>8. QED
    BY <2>4, <2>5, <2>6, <2>7 DEF LeakInv
<1>4. CASE EndLow
  <2>1. /\ phase = "low" /\ phase' \in {"drain", "raise"}
        /\ UNCHANGED <<sub, cond, lowNG, highNG, all, vbRes>>
    BY <1>4 DEF EndLow
  <2>2. vbRes' = {} /\ ~needDry
    BY <2>1 DEF LeakInv, NotYet
  <2>3. \/ UNCHANGED <<ngCount, needDry, before>>
        \/ phase' = "drain" /\ ngCount' = 0 /\ needDry' = TRUE /\ before' = {}
    BY <1>4 DEF EndLow, CountersCleared
  <2>4. ngCount' = Packed(before') /\ ngCount' \in 0..255
    <3>1. Packed({}) = 0
      BY DEF Packed, Counter
    <3>2. QED
      BY <2>3, <3>1 DEF LeakInv, TypeOK
  <2>5. TypeOK'
    BY <2>1, <2>3, <2>4 DEF LeakInv, TypeOK, Phases
  <2>6. NotYet' /\ Ordered'
    BY <2>1, <2>2, <2>3 DEF NotYet, Ordered
  <2>7. OneResult' /\ Agree'
    BY <2>2 DEF OneResult, Agree
  <2>8. all'.low = lowNG'
    BY <2>1 DEF LeakInv
  <2>9. QED
    BY <2>4, <2>5, <2>6, <2>7, <2>8 DEF LeakInv
<1>5. CASE EndHigh
  <2>1. /\ phase = "high" /\ phase' = "drain" /\ needDry' \in BOOLEAN
        /\ UNCHANGED <<sub, cond, lowNG, highNG, all, ngCount, vbRes, before>>
    BY <1>5 DEF EndHigh, LeakInv, TypeOK
  <2>2. TypeOK' /\ NotYet' /\ Ordered'
    BY <2>1 DEF LeakInv, TypeOK, Phases, NotYet, Ordered
  <2>3. OneResult' /\ Agree'
    BY <2>1 DEF LeakInv, OneResult, Agree
  <2>4. ngCount' = Packed(before') /\ all'.low = lowNG'
    BY <2>1 DEF LeakInv
  <2>5. QED
    BY <2>2, <2>3, <2>4 DEF LeakInv
<1>6. CASE EndCycle
  <2>1. /\ phase' = "stop" /\ sub' = 0 /\ UNCHANGED cond
        /\ UNCHANGED <<lowNG, highNG, all, ngCount, vbRes, needDry, before>>
    BY <1>6 DEF EndCycle
  <2>2. 0 \in 0..LastMeas
    BY MeasuringStages
  <2>3. TypeOK' /\ NotYet' /\ Ordered'
    BY <2>1, <2>2, NothingFound DEF LeakInv, TypeOK, Phases, NotYet, Ordered
  <2>4. QED
    BY <2>1, <2>3, NothingFound DEF LeakInv
<1>7. QED
  BY <1>1, <1>2, <1>3, <1>4, <1>5, <1>6
\* The invariant holds in every state of the specification.
LEMMA LeakInvariant == Spec => []LeakInv
<1>1. Init => LeakInv
  <2> SUFFICES ASSUME Init PROVE LeakInv
    OBVIOUS
  <2>1. /\ phase = "stop" /\ sub = 0 /\ cond = 0 /\ ngCount = 0
        /\ lowNG = {} /\ highNG = {} /\ vbRes = {} /\ before = {}
        /\ all = [low |-> {}, high |-> {}] /\ needDry = FALSE
    BY DEF Init
  <2>2. 0 \in 0..LastMeas
    BY MeasuringStages
  <2>3. all \in [low : SUBSET PortSet, high : SUBSET PortSet] /\ all.low = lowNG
    BY <2>1
  <2>4. TypeOK
    <3>1. phase \in Phases /\ cond \in 0..2 /\ ngCount \in 0..255 /\ sub \in 0..LastMeas
      BY <2>1, <2>2 DEF Phases
    <3>2. lowNG \subseteq PortSet /\ highNG \subseteq PortSet /\ before \subseteq PortSet
      BY <2>1
    <3>3. vbRes \subseteq PortSet \X {"OK", "NG"}
      BY <2>1
    <3>4. QED
      BY <2>1, <2>3, <3>1, <3>2, <3>3 DEF TypeOK
  <2>5. ngCount = Packed(before)
    BY <2>1 DEF Packed, Counter
  <2>6. NotYet /\ Ordered /\ OneResult
    BY <2>1 DEF NotYet, Ordered, OneResult
  <2>7. QED
    BY <2>1, <2>3, <2>4, <2>5, <2>6 DEF LeakInv
<1>2. LeakInv /\ [Next]_leakVars => LeakInv'
  <2> SUFFICES ASSUME LeakInv, [Next]_leakVars PROVE LeakInv'
    OBVIOUS
  <2>1. CASE \/ \E accepted \in BOOLEAN : StartCycle(accepted)
             \/ EnterLow \/ EnterHigh \/ EndLow \/ EndHigh \/ EndCycle
    BY <2>1, OtherSteps
  <2>2. CASE NextStage
    <3>1. /\ phase \in {"low", "high"} /\ UNCHANGED phase
          /\ sub \in 1..(LastMeas - 1)
          /\ sub' \in {0, sub + 1} /\ cond' \in 0..2
      BY <2>2 DEF NextStage, Outcomes
    <3>2. sub \in 1..LastMeas /\ sub' \in 0..LastMeas
      BY <3>1, MeasuringStages
    <3>3. \/ Meas(sub) /\ \E leaks \in SUBSET {PortOf(sub)} : Record(leaks)
          \/ NoRecord
      BY <2>2 DEF NextStage
    <3>4. QED
      BY <3>1, <3>2, <3>3, StageEnds
  <2>3. CASE LastStage
    <3>1. /\ phase \in {"low", "high"} /\ UNCHANGED phase
          /\ sub = LastMeas /\ sub' = 0 /\ cond' \in {0, 1}
          /\ \E leaks \in SUBSET {PortOf(sub)} : Record(leaks)
      BY <2>3 DEF LastStage
    <3>2. sub \in 1..LastMeas /\ sub' \in 0..LastMeas /\ cond' \in 0..2 /\ Meas(sub)
      BY <3>1, MeasuringStages, PortsAssumption
    <3>3. sub' \in {0, sub + 1}
      BY <3>1
    <3>4. QED
      BY <3>1, <3>2, <3>3, StageEnds
  <2>4. CASE UNCHANGED leakVars
    <3>1. TypeOK' /\ NotYet' /\ Ordered'
      BY <2>4 DEF leakVars, LeakInv, TypeOK, NotYet, Ordered, FoundBefore
    <3>2. OneResult' /\ (Agree' <=> Agree) /\ ngCount' = Packed(before')
      BY <2>4 DEF leakVars, LeakInv, OneResult, Agree
    <3>3. QED
      BY <2>4, <3>1, <3>2 DEF leakVars, LeakInv
  <2>5. QED
    BY <2>1, <2>2, <2>3, <2>4 DEF Next
<1>3. QED
  BY <1>1, <1>2, PTL DEF Spec

(***************************************************************************)
(* The properties.                                                         *)
(***************************************************************************)

\* Between the calls every pair of bits of s_ngCount is 0 or 1, and 1 only for a
\* port whose last published result was NG: nothing is carried from one port to
\* its neighbour, and no cycle that is stopped or refused leaves a wrong count
\* (Mersm_LeakTest.c:1059-1107).
THEOREM CountsAlwaysNG == Spec => []CountedWasNG
<1>1. LeakInv => CountedWasNG
  <2> SUFFICES ASSUME LeakInv, NEW p \in PortSet
               PROVE  NgOf(ngCount, p) = 0 \/ (NgOf(ngCount, p) = 1 /\ p \in before)
    BY DEF CountedWasNG
  <2>1. NgOf(ngCount, p) = Counter(before, p)
    BY PackedRead DEF LeakInv
  <2>2. QED
    BY <2>1 DEF Counter
<1>2. QED
  BY <1>1, LeakInvariant, PTL

\* The PLC never reads both OK and NG of one port in one cycle
\* (Mersm_Test.c:178, Mersm_LeakTest.c:1059-1097).
THEOREM AlwaysOneResult == Spec => []OneResult
<1>1. LeakInv => OneResult
  BY DEF LeakInv
<1>2. QED
  BY <1>1, LeakInvariant, PTL

\* While the high-pressure measurement runs and the water is drained, the results
\* the PLC reads are those of this cycle's measurements at both pressures
\* (Mersm_LeakTest.c:936-1050).
THEOREM ResultsAlwaysAgree == Spec => []ResultsAgree
<1>1. LeakInv => ResultsAgree
  BY DEF LeakInv, ResultsAgree, Agree
<1>2. QED
  BY <1>1, LeakInvariant, PTL

\* The second NG of a port in a row asks for drying, whatever the other ports did
\* and however the cycles between the two ended (Mersm_LeakTest.c:1062-1069).
THEOREM SecondNGAlwaysAsks == Spec => SecondNGAsks
<1> DEFINE Asks == \A p \in PortSet :
                     (p \in before /\ <<p, "NG">> \in vbRes' \ vbRes) => needDry'
<1>1. LeakInv /\ [Next]_leakVars => [Asks]_leakVars
  <2> SUFFICES ASSUME LeakInv, Next PROVE Asks
    OBVIOUS
  <2>1. CASE vbRes' \subseteq vbRes
    BY <2>1
  <2>2. ASSUME phase = "high", sub \in 1..LastMeas, Meas(sub),
               NEW leaks \in SUBSET {PortOf(sub)}, Record(leaks)
        PROVE  Asks
    <3>1. sub + 1 \in Nat
      BY <2>2, MeasuringStages
    <3>2. QED
      BY <2>2, <3>1, RecordedHigh
  <2>3. ASSUME phase # "high", NEW leaks, Record(leaks), phase \in {"low", "high"}
        PROVE  UNCHANGED vbRes
    BY <2>3 DEF Record
  <2>4. CASE NextStage
    <3>1. phase \in {"low", "high"} /\ sub \in 1..LastMeas
      BY <2>4, MeasuringStages DEF NextStage
    <3>2. CASE NoRecord
      BY <2>1, <3>2 DEF NoRecord
    <3>3. CASE Meas(sub) /\ \E leaks \in SUBSET {PortOf(sub)} : Record(leaks)
      BY <2>1, <2>2, <2>3, <3>1, <3>3
    <3>4. QED
      BY <2>4, <3>2, <3>3 DEF NextStage
  <2>5. CASE LastStage
    <3>1. phase \in {"low", "high"} /\ sub = LastMeas /\ sub \in 1..LastMeas /\ Meas(sub)
      BY <2>5, MeasuringStages, PortsAssumption DEF LastStage
    <3>2. \E leaks \in SUBSET {PortOf(sub)} : Record(leaks)
      BY <2>5 DEF LastStage
    <3>3. QED
      BY <2>1, <2>2, <2>3, <3>1, <3>2
  <2>6. CASE \/ \E accepted \in BOOLEAN : StartCycle(accepted)
             \/ EnterLow \/ EnterHigh \/ EndLow \/ EndHigh \/ EndCycle
    <3>1. vbRes' = {} \/ UNCHANGED vbRes
      BY <2>6 DEF StartCycle, EnterLow, EnterHigh, EndLow, EndHigh, EndCycle
    <3>2. QED
      BY <2>1, <3>1
  <2>7. QED
    BY <2>4, <2>5, <2>6 DEF Next
<1>2. QED
  BY <1>1, LeakInvariant, PTL DEF Spec, SecondNGAsks
=============================================================================
