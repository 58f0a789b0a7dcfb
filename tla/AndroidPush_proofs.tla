------------------------- MODULE AndroidPush_proofs -------------------------
(***************************************************************************)
(* Theorems about pushes to Android devices, for packets of any lengths    *)
(* and batches of them that TLS puts into one record, any size of the      *)
(* buffer, and any bounds.                                                 *)
(***************************************************************************)
EXTENDS AndroidPush, SequenceTheorems, TLAPS

USE AndroidAssumption

-----------------------------------------------------------------------------
(* The provider's connection: what is in its records and in the buffer.    *)

ProviderOK ==
  /\ sent \in 0 .. MaxPackets
  /\ records \in Seq(Record)
  /\ torn \in BOOLEAN
  /\ oversized \in BOOLEAN
  /\ fState \in {"kReadingRequest", "kProcessingRequest", "kCleaningUp", "dead"}
  /\ packets \in Record
  /\ nLen \in 0 .. UIntMod - 1
  /\ handled \in Seq(1 .. MaxPackets)
  /\ discarded \in BOOLEAN

\* Packets that follow one another in a record without a gap.
WellFormed(r) ==
  /\ \A i \in 1 .. Len(r) : Start(r[i]) >= 0
  /\ \A i, j \in 1 .. Len(r) : i < j => r[i].nr < r[j].nr /\ r[i].end <= Start(r[j])
  /\ \A i \in 1 .. Len(r) : i + 1 <= Len(r) => Start(r[i + 1]) = r[i].end

RecordsOK ==
  /\ \A k \in 1 .. Len(records) : WellFormed(records[k])
  /\ WellFormed(packets)

Numbers(r) == {r[i].nr : i \in 1 .. Len(r)}
Before(S, T) == \A a \in S, b \in T : a < b

\* Every packet was sent before those that are behind it: in the records, in the
\* buffer, among those handled.
InOrder ==
  /\ \A k, l \in 1 .. Len(records) : k < l => Before(Numbers(records[k]), Numbers(records[l]))
  /\ \A k \in 1 .. Len(records) :
       /\ Before(ToSet(handled) \cup Numbers(packets), Numbers(records[k]))
       /\ Numbers(records[k]) \subseteq 1 .. sent
  /\ Before(ToSet(handled), Numbers(packets))
  /\ ToSet(handled) \cup Numbers(packets) \subseteq 1 .. sent
  /\ Increasing(handled)

\* The buffer holds its packets, the last one perhaps without its end.
Fill ==
  /\ packets = <<>> => nLen = 0 /\ ~ torn
  /\ packets # <<>> =>
       LET last == packets[Len(packets)]
           begin == Start(packets[1])
       IN /\ Start(last) - begin < nLen
          /\ nLen <= last.end - begin
          /\ torn <=> nLen < last.end - begin

\* A packet is only cut at the end of a record that does not fit, and what comes
\* of it is an error or the end.
BufferInv ==
  /\ fState = "kReadingRequest" => ~ torn
  /\ fState = "kProcessingRequest" => Fill /\ nLen <= RequestBuffer /\ (torn => oversized)
  /\ discarded \/ fState \in {"kCleaningUp", "dead"} => oversized
  /\ \A k \in 1 .. Len(records) : \A i \in 1 .. Len(records[k]) :
       records[k][i].end > RequestBuffer => oversized

ProviderInv == ProviderOK /\ RecordsOK /\ InOrder /\ BufferInv

LEMMA ProviderInit == Init => ProviderInv
<1> SUFFICES ASSUME Init PROVE ProviderInv
  OBVIOUS
<1> USE DEF Init
<1>1. ProviderOK
  <2>1. sent \in 0 .. MaxPackets /\ nLen \in 0 .. UIntMod - 1
    OBVIOUS
  <2>2. records \in Seq(Record) /\ packets \in Record /\ handled \in Seq(1 .. MaxPackets)
    BY DEF Record
  <2> QED
    BY <2>1, <2>2 DEF ProviderOK
<1>2. RecordsOK
  BY DEF RecordsOK, WellFormed
<1>3. InOrder
  BY DEF InOrder, Before, Numbers, ToSet, Increasing
<1>4. BufferInv
  BY DEF BufferInv
<1> QED
  BY <1>1, <1>2, <1>3, <1>4 DEF ProviderInv

LEMMA ProviderFrame == ProviderInv /\ UNCHANGED providerVars => ProviderInv'
<1> SUFFICES ASSUME ProviderInv, UNCHANGED providerVars PROVE ProviderInv'
  OBVIOUS
<1> USE DEF ProviderInv, providerVars
<1>1. ProviderOK'
  BY DEF ProviderOK
<1>2. RecordsOK'
  BY DEF RecordsOK, WellFormed
<1>3. InOrder'
  BY DEF InOrder, Increasing
<1>4. BufferInv'
  BY DEF BufferInv, Fill
<1> QED
  BY <1>1, <1>2, <1>3, <1>4

\* Sizes and places of packets are numbers.
LEMMA PacketNumbers ==
  ASSUME NEW p \in Packet
  PROVE /\ p.len \in Nat /\ p.end \in Nat /\ p.nr \in 1 .. MaxPackets
        /\ Size(p) \in Nat /\ Size(p) = 37 + p.len
        /\ Start(p) \in Int /\ Start(p) = p.end - Size(p)
<1>1. p.len \in Nat /\ p.end \in Nat /\ p.nr \in 1 .. MaxPackets
  BY DEF Packet
<1> QED
  BY <1>1 DEF Size, Start

LEMMA StartBeforeEnd ==
  ASSUME NEW p \in Packet
  PROVE Start(p) \in Int /\ p.end \in Nat /\ Start(p) <= p.end
<1>1. p.end \in Nat /\ Size(p) \in Nat /\ Start(p) = p.end - Size(p)
  BY PacketNumbers
<1> QED
  BY <1>1

LEMMA RecordElements ==
  ASSUME NEW r \in Record
  PROVE Len(r) \in Nat /\ \A i \in 1 .. Len(r) : r[i] \in Packet
  BY LenProperties, ElementOfSeq DEF Record

\* A piece of a record is well-formed, and so is what is left of it.
LEMMA PieceWellFormed ==
  ASSUME NEW r \in Record, WellFormed(r), NEW m \in 1 .. Len(r) + 1, NEW n \in 0 .. Len(r)
  PROVE /\ SubSeq(r, m, n) \in Record
        /\ WellFormed(SubSeq(r, m, n))
        /\ Numbers(SubSeq(r, m, n)) \subseteq Numbers(r)
        /\ Len(SubSeq(r, m, n)) = IF m <= n THEN n - m + 1 ELSE 0
        /\ \A i \in 1 .. n - m + 1 : SubSeq(r, m, n)[i] = r[m + i - 1]
<1> DEFINE t == SubSeq(r, m, n)
<1>1. Len(r) \in Nat /\ \A i \in 1 .. Len(r) : r[i] \in Packet
  BY RecordElements
<1>2. \A i \in m .. n : r[i] \in Packet
  BY <1>1
<1>3. /\ t \in Seq(Packet)
      /\ Len(t) = IF m <= n THEN n - m + 1 ELSE 0
      /\ \A i \in 1 .. n - m + 1 : t[i] = r[m + i - 1]
  BY <1>1, <1>2, SubSeqProperties
<1> HIDE DEF t
<1>4. \A i \in 1 .. Len(t) : m + i - 1 \in 1 .. Len(r) /\ t[i] = r[m + i - 1]
  BY <1>1, <1>3
<1>5. WellFormed(t)
  <2>1. \A i \in 1 .. Len(t) : Start(t[i]) >= 0
    BY <1>4 DEF WellFormed
  <2>2. ASSUME NEW i \in 1 .. Len(t), NEW j \in 1 .. Len(t), i < j
        PROVE t[i].nr < t[j].nr /\ t[i].end <= Start(t[j])
    <3>1. m + i - 1 < m + j - 1
      BY <1>3, <2>2
    <3> QED
      BY <1>4, <3>1 DEF WellFormed
  <2>3. ASSUME NEW i \in 1 .. Len(t), i + 1 <= Len(t) PROVE Start(t[i + 1]) = t[i].end
    <3>1. i + 1 \in 1 .. Len(t) /\ m + (i + 1) - 1 = (m + i - 1) + 1
      BY <1>3, <2>3
    <3>2. (m + i - 1) + 1 <= Len(r)
      BY <1>3, <2>3
    <3> QED
      BY <1>4, <3>1, <3>2 DEF WellFormed
  <2> QED
    BY <2>1, <2>2, <2>3 DEF WellFormed
<1>6. Numbers(t) \subseteq Numbers(r)
  BY <1>4 DEF Numbers
<1> QED
  BY <1>3, <1>5, <1>6 DEF t, Record

\* A record with one more packet behind its last one is well-formed.
LEMMA LongerWellFormed ==
  ASSUME NEW r \in Record, r # <<>>, WellFormed(r), NEW p \in Packet,
         Start(p) = r[Len(r)].end, \A i \in 1 .. Len(r) : r[i].nr < p.nr
  PROVE WellFormed(Append(r, p))
<1> DEFINE q == Append(r, p)
<1>1. Len(r) \in Nat \ {0} /\ \A i \in 1 .. Len(r) : r[i] \in Packet
  BY RecordElements, EmptySeq DEF Record
<1>2. /\ Len(q) = Len(r) + 1
      /\ \A i \in 1 .. Len(r) : q[i] = r[i]
      /\ q[Len(r) + 1] = p
  BY AppendProperties DEF Record
<1> HIDE DEF q
<1> DEFINE n == Len(r)
           last == r[n]
<1>3. last \in Packet /\ last.end \in Nat /\ Start(last) <= last.end /\ Start(p) = last.end
  <2>1. last \in Packet
    BY <1>1
  <2> QED
    BY <2>1, PacketNumbers
<1>4. ASSUME NEW i \in 1 .. Len(r) PROVE r[i].end <= Start(p) /\ Start(r[i]) >= 0
  <2>1. CASE i = Len(r)
    BY <1>3, <2>1 DEF WellFormed
  <2>2. CASE i < Len(r)
    <3>1. r[i].end <= Start(last)
      BY <1>1, <2>2 DEF WellFormed
    <3>2. r[i] \in Packet
      BY <1>1
    <3>3. r[i].end \in Nat /\ Start(last) \in Int
      BY <1>3, <3>2, PacketNumbers
    <3> QED
      BY <1>3, <3>1, <3>3 DEF WellFormed
  <2> QED
    BY <1>1, <2>1, <2>2
<1>5. ASSUME NEW i \in 1 .. Len(q) PROVE i \in 1 .. Len(r) \/ i = Len(r) + 1
  BY <1>1, <1>2
<1>6. \A i \in 1 .. Len(q) : Start(q[i]) >= 0
  BY <1>2, <1>3, <1>4, <1>5
<1>7. ASSUME NEW i \in 1 .. Len(q), NEW j \in 1 .. Len(q), i < j
      PROVE q[i].nr < q[j].nr /\ q[i].end <= Start(q[j])
  <2>1. i \in 1 .. Len(r) /\ q[i] = r[i]
    BY <1>1, <1>2, <1>7
  <2>2. CASE j \in 1 .. Len(r)
    BY <1>2, <1>7, <2>1, <2>2 DEF WellFormed
  <2>3. CASE j = Len(r) + 1
    BY <1>2, <1>4, <2>1, <2>3
  <2> QED
    BY <1>5, <2>2, <2>3
<1>8. ASSUME NEW i \in 1 .. Len(q), i + 1 <= Len(q) PROVE Start(q[i + 1]) = q[i].end
  <2>1. i \in 1 .. Len(r) /\ q[i] = r[i]
    BY <1>1, <1>2, <1>8
  <2>2. CASE i + 1 <= Len(r)
    <3>1. i + 1 \in 1 .. Len(r)
      BY <1>1, <2>1, <2>2
    <3> QED
      BY <1>2, <2>1, <2>2, <3>1 DEF WellFormed
  <2>3. CASE i = Len(r)
    BY <1>2, <1>3, <2>1, <2>3
  <2> QED
    BY <1>1, <2>1, <2>2, <2>3
<1> QED
  BY <1>6, <1>7, <1>8 DEF WellFormed, q

\* What is numbered up to n comes before number n + 1.
LEMMA BeforeNext ==
  ASSUME NEW n \in Nat, NEW S, S \subseteq 1 .. n
  PROVE Before(S, {n + 1}) /\ S \subseteq 1 .. n + 1
<1>1. ASSUME NEW a \in S PROVE a < n + 1 /\ a \in 1 .. n + 1
  <2>1. a \in 1 .. n
    OBVIOUS
  <2> QED
    BY <2>1
<1> QED
  BY <1>1 DEF Before

\* A packet with the next number, in a record of its own ...
LEMMA SendsAlone ==
  ASSUME ProviderInv, sent < MaxPackets, NEW p \in Packet, p.nr = sent + 1,
         p.end = Size(p), sent' = sent + 1,
         records' = Append(records, <<p>>),
         oversized' = (oversized \/ p.end > RequestBuffer),
         UNCHANGED <<torn, fState, packets, nLen, handled, discarded>>
  PROVE ProviderInv'
<1> DEFINE q == <<p>>
<1> USE DEF ProviderInv
<1>1. /\ q \in Record /\ Len(q) = 1 /\ q[1] = p
  BY DEF Record
<1>2. Numbers(q) = {sent + 1} /\ WellFormed(q)
  BY <1>1, PacketNumbers DEF Numbers, WellFormed
<1>3. records \in Seq(Record) /\ records' = Append(records, q)
  BY DEF ProviderOK
<1> HIDE DEF q
<1>4. /\ records' \in Seq(Record) /\ Len(records') = Len(records) + 1 /\ Len(records) \in Nat
      /\ \A k \in 1 .. Len(records) : records'[k] = records[k]
      /\ records'[Len(records) + 1] = q
  BY <1>1, <1>3, AppendProperties, LenProperties
<1> \A k \in 1 .. Len(records') : k \in 1 .. Len(records) \/ k = Len(records) + 1
  BY <1>4
<1>5. ProviderOK'
  BY <1>4 DEF ProviderOK
<1>6. RecordsOK'
  <2>1. \A k \in 1 .. Len(records') : WellFormed(records'[k])
    BY <1>2, <1>4 DEF RecordsOK
  <2>2. WellFormed(packets')
    BY DEF RecordsOK
  <2> QED
    BY <2>1, <2>2 DEF RecordsOK
<1>7. InOrder'
  <2>0. sent \in Nat /\ sent' = sent + 1
    BY DEF ProviderOK
  <2>1. ASSUME NEW k \in 1 .. Len(records'), NEW l \in 1 .. Len(records'), k < l
        PROVE Before(Numbers(records'[k]), Numbers(records'[l]))
    <3>1. CASE l \in 1 .. Len(records)
      BY <1>4, <2>1, <3>1 DEF InOrder
    <3>2. CASE l = Len(records) + 1
      <4>1. k \in 1 .. Len(records) /\ records'[k] = records[k] /\ records'[l] = q
        BY <1>4, <2>1, <3>2
      <4>2. Numbers(records[k]) \subseteq 1 .. sent
        BY <4>1 DEF InOrder
      <4> QED
        BY <1>2, <2>0, <4>1, <4>2, BeforeNext
    <3> QED
      BY <1>4, <3>1, <3>2
  <2>2. ASSUME NEW k \in 1 .. Len(records')
        PROVE /\ Before(ToSet(handled) \cup Numbers(packets), Numbers(records'[k]))
              /\ Numbers(records'[k]) \subseteq 1 .. sent'
    <3>1. CASE k \in 1 .. Len(records)
      <4>1. /\ Before(ToSet(handled) \cup Numbers(packets), Numbers(records[k]))
            /\ Numbers(records[k]) \subseteq 1 .. sent
        BY <3>1 DEF InOrder
      <4> QED
        BY <1>4, <2>0, <3>1, <4>1, BeforeNext
    <3>2. CASE k = Len(records) + 1
      <4>1. ToSet(handled) \cup Numbers(packets) \subseteq 1 .. sent
        BY DEF InOrder
      <4>2. sent + 1 \in 1 .. sent + 1
        BY <2>0
      <4> QED
        BY <1>2, <1>4, <2>0, <3>2, <4>1, <4>2, BeforeNext
    <3> QED
      BY <3>1, <3>2
  <2>3. /\ Before(ToSet(handled), Numbers(packets))
        /\ ToSet(handled) \cup Numbers(packets) \subseteq 1 .. sent'
        /\ Increasing(handled)
    BY <2>0, BeforeNext DEF InOrder
  <2> QED
    BY <2>1, <2>2, <2>3 DEF InOrder, Increasing
<1>8. BufferInv'
  <2>1. ASSUME NEW k \in 1 .. Len(records'), NEW i \in 1 .. Len(records'[k]),
               records'[k][i].end > RequestBuffer
        PROVE oversized'
    <3>1. CASE k \in 1 .. Len(records)
      BY <1>4, <2>1, <3>1 DEF BufferInv
    <3>2. CASE k = Len(records) + 1
      <4>1. records'[k] = q /\ i \in 1 .. Len(q)
        BY <1>4, <2>1, <3>2
      <4>2. i = 1 /\ p.end > RequestBuffer
        BY <1>1, <2>1, <4>1
      <4> QED
        BY <4>2
    <3> QED
      BY <1>4, <3>1, <3>2
  <2> QED
    BY <2>1 DEF BufferInv, Fill
<1> QED
  BY <1>5, <1>6, <1>7, <1>8

\* ... or behind the last packet of the last record.
LEMMA SendsMore ==
  ASSUME ProviderInv, sent < MaxPackets, records # <<>>, NEW p \in Packet, p.nr = sent + 1,
         Last(records) # <<>>, Start(p) = Last(Last(records)).end, sent' = sent + 1,
         records' = [records EXCEPT ![Len(records)] = Append(Last(records), p)],
         oversized' = (oversized \/ p.end > RequestBuffer),
         UNCHANGED <<torn, fState, packets, nLen, handled, discarded>>
  PROVE ProviderInv'
<1> DEFINE n == Len(records)
           r == records[n]
           q == Append(r, p)
<1> USE DEF ProviderInv
<1>1. /\ records \in Seq(Record) /\ n \in Nat \ {0} /\ n \in 1 .. n
      /\ Last(records) = r /\ r \in Record /\ r # <<>>
  BY LenProperties, EmptySeq, ElementOfSeq DEF ProviderOK, Last
<1>2. Len(r) \in Nat \ {0} /\ Last(r) = r[Len(r)]
  BY <1>1, EmptySeq DEF Record, Last
<1>3. /\ q \in Record /\ Len(q) = Len(r) + 1
      /\ \A i \in 1 .. Len(r) : q[i] = r[i] /\ r[i] \in Packet
      /\ q[Len(r) + 1] = p
  BY <1>1, AppendProperties, ElementOfSeq DEF Record
<1>4. WellFormed(r) /\ Numbers(r) \subseteq 1 .. sent
  BY <1>1 DEF RecordsOK, InOrder
<1>5. Start(p) = r[Len(r)].end
  BY <1>1, <1>2
<1>6. records' = [records EXCEPT ![n] = q]
  BY <1>1
<1> HIDE DEF q
<1>7. /\ records' \in Seq(Record) /\ Len(records') = n
      /\ \A k \in 1 .. n : records'[k] = IF k = n THEN q ELSE records[k]
  <2> DEFINE after == [records EXCEPT ![n] = q]
  <2>1. /\ after \in Seq(Record) /\ Len(after) = Len(records)
        /\ \A k \in 1 .. Len(records) : after[k] = IF k = n THEN q ELSE records[k]
    BY <1>1, <1>3, ExceptSeq
  <2> HIDE DEF after
  <2> QED
    BY <1>6, <2>1 DEF after
<1> HIDE DEF n, r
<1>8. Numbers(q) = Numbers(r) \cup {sent + 1}
  <2>1. ASSUME NEW i \in 1 .. Len(q) PROVE q[i].nr \in Numbers(r) \cup {sent + 1}
    <3>1. CASE i \in 1 .. Len(r)
      BY <1>3, <3>1 DEF Numbers
    <3>2. CASE i = Len(r) + 1
      BY <1>3, <3>2
    <3> QED
      BY <1>2, <1>3, <3>1, <3>2
  <2>2. ASSUME NEW i \in 1 .. Len(r) PROVE r[i].nr \in Numbers(q)
    <3>1. i \in 1 .. Len(q) /\ q[i] = r[i]
      BY <1>2, <1>3
    <3> QED
      BY <3>1 DEF Numbers
  <2>3. sent + 1 \in Numbers(q)
    <3>1. Len(r) + 1 \in 1 .. Len(q)
      BY <1>2, <1>3
    <3> QED
      BY <1>3, <3>1 DEF Numbers
  <2> QED
    BY <2>1, <2>2, <2>3 DEF Numbers
<1>9. WellFormed(q)
  <2>1. ASSUME NEW i \in 1 .. Len(r) PROVE r[i].nr < p.nr
    <3> DEFINE x == r[i].nr
    <3>1. x \in Numbers(r)
      BY DEF Numbers
    <3>2. x \in 1 .. sent /\ sent \in Nat
      BY <1>4, <3>1 DEF ProviderOK
    <3>3. p.nr = sent + 1
      OBVIOUS
    <3> HIDE DEF x
    <3>4. x < sent + 1
      BY ONLY <3>2
    <3> QED
      BY <3>3, <3>4 DEF x
  <2>2. r \in Record /\ r # <<>>
    BY <1>1 DEF r
  <2> QED
    BY <1>4, <1>5, <2>1, <2>2, LongerWellFormed DEF q
<1>10. ProviderOK'
  BY <1>7 DEF ProviderOK
<1>11. RecordsOK'
  <2>1. \A k \in 1 .. Len(records') : WellFormed(records'[k])
    BY <1>7, <1>9 DEF RecordsOK, n
  <2>2. WellFormed(packets')
    BY DEF RecordsOK
  <2> QED
    BY <2>1, <2>2 DEF RecordsOK
<1>12. InOrder'
  <2>1. ASSUME NEW k \in 1 .. n, NEW l \in 1 .. n, k < l
        PROVE Before(Numbers(records'[k]), Numbers(records'[l]))
    <3>1. k # n /\ records'[k] = records[k]
      BY <1>1, <1>7, <2>1
    <3>2. Numbers(records[k]) \subseteq 1 .. sent /\ Before(Numbers(records[k]), Numbers(records[l]))
      BY <2>1 DEF InOrder, n
    <3>3. CASE l = n
      BY <1>7, <1>8, <3>1, <3>2, <3>3 DEF Before, ProviderOK, r
    <3>4. CASE l # n
      BY <1>7, <3>1, <3>2, <3>4
    <3> QED
      BY <3>3, <3>4
  <2>2. ASSUME NEW k \in 1 .. n
        PROVE /\ Before(ToSet(handled) \cup Numbers(packets), Numbers(records'[k]))
              /\ Numbers(records'[k]) \subseteq 1 .. sent'
    <3>1. /\ Before(ToSet(handled) \cup Numbers(packets), Numbers(records[k]))
          /\ Numbers(records[k]) \subseteq 1 .. sent
          /\ ToSet(handled) \cup Numbers(packets) \subseteq 1 .. sent
      BY DEF InOrder, n
    <3>2. CASE k = n
      BY <1>7, <1>8, <3>1, <3>2 DEF Before, ProviderOK, r
    <3>3. CASE k # n
      BY <1>7, <3>1, <3>3 DEF ProviderOK
    <3> QED
      BY <3>2, <3>3
  <2>3. /\ Before(ToSet(handled), Numbers(packets))
        /\ ToSet(handled) \cup Numbers(packets) \subseteq 1 .. sent'
        /\ Increasing(handled)
    BY DEF InOrder, ProviderOK
  <2> QED
    BY <1>7, <2>1, <2>2, <2>3 DEF InOrder, Increasing
<1>13. BufferInv'
  <2>1. ASSUME NEW k \in 1 .. n, NEW i \in 1 .. Len(records'[k]),
               records'[k][i].end > RequestBuffer
        PROVE oversized'
    <3>1. \A j \in 1 .. Len(records[k]) : records[k][j].end > RequestBuffer => oversized
      BY DEF BufferInv, n
    <3>2. CASE k = n
      <4>1. records'[k] = q /\ records[k] = r
        BY <1>7, <3>2 DEF r
      <4>2. i \in 1 .. Len(q) /\ q[i].end > RequestBuffer
        BY <2>1, <4>1
      <4>3. CASE i = Len(r) + 1
        BY <1>3, <4>2, <4>3
      <4>4. CASE i \in 1 .. Len(r)
        BY <1>3, <3>1, <4>1, <4>2, <4>4
      <4> QED
        BY <1>2, <1>3, <4>2, <4>3, <4>4
    <3>3. CASE k # n
      BY <1>7, <2>1, <3>1, <3>3
    <3> QED
      BY <3>2, <3>3
  <2> QED
    BY <1>7, <2>1 DEF BufferInv, Fill
<1> QED
  BY <1>10, <1>11, <1>12, <1>13

LEMMA SendsStep == ProviderInv /\ ProviderSends => ProviderInv'
<1> SUFFICES ASSUME ProviderInv, ProviderSends PROVE ProviderInv'
  OBVIOUS
<1>1. sent < MaxPackets /\ sent' = sent + 1 /\ sent + 1 \in 1 .. MaxPackets
  BY DEF ProviderSends, ProviderInv, ProviderOK
<1>2. UNCHANGED <<torn, fState, packets, nLen, handled, discarded>>
  BY DEF ProviderSends
<1>3. PICK len \in Lengths :
       \/ /\ records' = Append(records, <<[nr |-> sent + 1, len |-> len, end |-> 37 + len]>>)
          /\ oversized' = (oversized \/ 37 + len > RequestBuffer)
       \/ LET r == Last(records)
              end == Last(r).end + 37 + len
          IN /\ records # <<>>
             /\ Len(r) \in 1 .. MaxBatch - 1
             /\ records' = [records EXCEPT ![Len(records)] =
                  Append(r, [nr |-> sent + 1, len |-> len, end |-> end])]
             /\ oversized' = (oversized \/ end > RequestBuffer)
  BY DEF ProviderSends
<1>4. CASE /\ records' = Append(records, <<[nr |-> sent + 1, len |-> len, end |-> 37 + len]>>)
           /\ oversized' = (oversized \/ 37 + len > RequestBuffer)
  <2> DEFINE p == [nr |-> sent + 1, len |-> len, end |-> 37 + len]
  <2>1. p \in Packet /\ p.nr = sent + 1 /\ p.end = Size(p) /\ p.end = 37 + len
    BY <1>1 DEF Packet, Size
  <2>2. records' = Append(records, <<p>>) /\ oversized' = (oversized \/ p.end > RequestBuffer)
    BY <1>4
  <2> HIDE DEF p
  <2> QED
    BY <1>1, <1>2, <2>1, <2>2, SendsAlone
<1>5. CASE LET r == Last(records)
               end == Last(r).end + 37 + len
           IN /\ records # <<>>
              /\ Len(r) \in 1 .. MaxBatch - 1
              /\ records' = [records EXCEPT ![Len(records)] =
                   Append(r, [nr |-> sent + 1, len |-> len, end |-> end])]
              /\ oversized' = (oversized \/ end > RequestBuffer)
  <2> DEFINE r == Last(records)
             e == Last(r).end + 37 + len
             p == [nr |-> sent + 1, len |-> len, end |-> e]
  <2>1. records # <<>> /\ Len(r) \in 1 .. MaxBatch - 1
    BY <1>5
  <2>2. r \in Record
    BY <2>1, EmptySeq, ElementOfSeq DEF ProviderInv, ProviderOK, Last
  <2>3. r # <<>> /\ Last(r) \in Packet
    BY <2>1, <2>2, EmptySeq, ElementOfSeq DEF Record, Last
  <2>4. Last(r).end \in Nat
    BY <2>3, PacketNumbers
  <2>5. p \in Packet /\ p.nr = sent + 1 /\ Start(p) = Last(r).end /\ p.end = e
    BY <1>1, <2>4 DEF Packet, Size, Start
  <2>6. /\ records' = [records EXCEPT ![Len(records)] = Append(r, p)]
        /\ oversized' = (oversized \/ p.end > RequestBuffer)
    BY <1>5
  <2> HIDE DEF p
  <2> QED
    BY <1>1, <1>2, <2>1, <2>3, <2>5, <2>6, SendsMore
<1> QED
  BY <1>3, <1>4, <1>5

\* A record is read to its end, or all but the rest of it.
LEMMA RecordsAfterRead ==
  ASSUME NEW s \in Seq(Record), s # <<>>, NEW rest \in Record, NEW t,
         t = Tail(s) \/ t = [s EXCEPT ![1] = rest]
  PROVE /\ t \in Seq(Record)
        /\ \E d \in 0 .. 1 :
             /\ Len(t) = Len(s) - d
             /\ \A k \in 1 .. Len(t) :
               \/ k = 1 /\ t[k] = rest
               \/ k + d \in 2 .. Len(s) /\ t[k] = s[k + d]
<1>1. Len(s) \in Nat \ {0} /\ 1 \in 1 .. Len(s)
  BY EmptySeq
<1>2. CASE t = Tail(s)
  <2>1. /\ t \in Seq(Record) /\ Len(t) = Len(s) - 1
        /\ \A k \in 1 .. Len(t) : t[k] = s[k + 1]
    BY <1>2
  <2>2. \A k \in 1 .. Len(t) : k + 1 \in 2 .. Len(s) /\ t[k] = s[k + 1]
    BY <1>1, <2>1
  <2> QED
    BY <2>1, <2>2
<1>3. CASE t = [s EXCEPT ![1] = rest]
  <2>1. /\ t \in Seq(Record) /\ Len(t) = Len(s)
        /\ \A k \in 1 .. Len(s) : t[k] = IF k = 1 THEN rest ELSE s[k]
    BY <1>1, <1>3, ExceptSeq
  <2>2. ASSUME NEW k \in 1 .. Len(t)
        PROVE \/ k = 1 /\ t[k] = rest
              \/ k + 0 \in 2 .. Len(s) /\ t[k] = s[k + 0]
    <3>1. k \in 1 .. Len(s) /\ k + 0 = k
      BY <2>1
    <3>2. CASE k = 1
      BY <2>1, <3>1, <3>2
    <3>3. CASE k # 1
      <4>1. k \in 2 .. Len(s)
        BY <1>1, <3>1, <3>3
      <4>2. t[k] = s[k]
        BY <2>1, <3>1, <3>3
      <4> QED
        BY <3>1, <4>1, <4>2
    <3> QED
      BY <3>2, <3>3
  <2>3. Len(t) = Len(s) - 0
    BY <1>1, <2>1
  <2>4. \E d \in 0 .. 1 :
          /\ Len(t) = Len(s) - d
          /\ \A k \in 1 .. Len(t) :
            \/ k = 1 /\ t[k] = rest
            \/ k + d \in 2 .. Len(s) /\ t[k] = s[k + d]
    <3> WITNESS 0 \in 0 .. 1
    <3> QED
      BY <2>2, <2>3
  <2> QED
    BY <2>1, <2>4
<1> QED
  BY <1>2, <1>3

\* The numbers of a record's beginning are smaller than those of its rest.
LEMMA PiecesInOrder ==
  ASSUME NEW r \in Record, WellFormed(r), NEW last \in 1 .. Len(r), NEW p, NEW q,
         Len(p) = last, \A i \in 1 .. last : p[i] = r[i],
         \A j \in 1 .. Len(q) : last + j \in 1 .. Len(r) /\ q[j] = r[last + j]
  PROVE Before(Numbers(p), Numbers(q))
<1> SUFFICES ASSUME NEW x \in Numbers(p), NEW y \in Numbers(q) PROVE x < y
  BY DEF Before
<1>1. PICK i \in 1 .. last : x = r[i].nr
  BY DEF Numbers
<1>2. PICK j \in 1 .. Len(q) : y = r[last + j].nr /\ last + j \in 1 .. Len(r)
  BY DEF Numbers
<1>3. Len(r) \in Nat
  BY RecordElements
<1>4. i \in 1 .. Len(r) /\ i < last + j
  BY <1>2, <1>3
<1> QED
  BY <1>1, <1>2, <1>4 DEF WellFormed

\* What is read of a record is cut only at the end of a full buffer.
LEMMA ReadStep == ProviderInv /\ ReadRequest => ProviderInv'
<1> SUFFICES ASSUME ProviderInv, ReadRequest PROVE ProviderInv'
  OBVIOUS
<1> DEFINE r == Head(records)
           a == Start(Head(r))
           arrived == Last(r).end - a
           n == IF arrived <= RequestBuffer THEN arrived ELSE RequestBuffer
<1>1. /\ fState = "kReadingRequest" /\ fState' = "kProcessingRequest"
      /\ records # <<>>
      /\ UNCHANGED <<sent, oversized, handled, discarded>>
  BY DEF ReadRequest
<1>2. PICK last \in DOMAIN r :
        LET missing == r[last].end - (a + n) IN
        /\ missing \in 0 .. Size(r[last]) - 1
        /\ nLen' = n
        /\ packets' = SubSeq(r, 1, last)
        /\ torn' = (missing > 0)
        /\ records' = IF last = Len(r) /\ missing = 0 THEN Tail(records)
                      ELSE [records EXCEPT ![1] = SubSeq(r, last + 1, Len(r))]
  BY DEF ReadRequest
<1> DEFINE missing == r[last].end - (a + n)
           rest == SubSeq(r, last + 1, Len(r))
<1>3. /\ records \in Seq(Record) /\ Len(records) \in Nat \ {0}
      /\ r = records[1] /\ r \in Record /\ WellFormed(r) /\ 1 \in 1 .. Len(records)
  BY <1>1, EmptySeq, ElementOfSeq DEF ProviderInv, ProviderOK, RecordsOK
<1>4. /\ Len(r) \in Nat \ {0} /\ last \in 1 .. Len(r) /\ Head(r) = r[1] /\ Last(r) = r[Len(r)]
      /\ \A i \in 1 .. Len(r) : r[i] \in Packet
  <2>1. Len(r) \in Nat /\ DOMAIN r = 1 .. Len(r) /\ \A i \in 1 .. Len(r) : r[i] \in Packet
    BY <1>3, LenProperties, RecordElements DEF Record
  <2>2. last \in 1 .. Len(r) /\ Len(r) # 0
    <3>1. last \in 1 .. Len(r)
      BY <2>1
    <3> DEFINE l == Len(r)
    <3>2. l \in Nat /\ last \in 1 .. l
      BY <2>1, <3>1
    <3> HIDE DEF l
    <3>3. l # 0
      BY ONLY <3>2
    <3> QED
      BY <3>1, <3>3 DEF l
  <2> QED
    BY <1>3, <2>1, <2>2 DEF Record, Last
<1>5. /\ packets' = SubSeq(r, 1, last) /\ nLen' = n /\ torn' = (missing > 0)
      /\ missing \in 0 .. Size(r[last]) - 1
      /\ records' = IF last = Len(r) /\ missing = 0 THEN Tail(records)
                    ELSE [records EXCEPT ![1] = rest]
  BY <1>2
<1> HIDE DEF r
<1>6. /\ packets' \in Record /\ WellFormed(packets') /\ Numbers(packets') \subseteq Numbers(r)
      /\ Len(packets') = last /\ packets' # <<>>
      /\ \A i \in 1 .. last : packets'[i] = r[i]
  <2>1. /\ SubSeq(r, 1, last) \in Record /\ WellFormed(SubSeq(r, 1, last))
        /\ Numbers(SubSeq(r, 1, last)) \subseteq Numbers(r)
        /\ Len(SubSeq(r, 1, last)) = last
        /\ \A i \in 1 .. last - 1 + 1 : SubSeq(r, 1, last)[i] = r[1 + i - 1]
    <3>1. 1 \in 1 .. Len(r) + 1 /\ last \in 0 .. Len(r) /\ 1 <= last /\ last - 1 + 1 = last
      BY <1>4
    <3> QED
      BY <1>3, <3>1, PieceWellFormed
  <2>2. SubSeq(r, 1, last) # <<>>
    BY <1>4, <2>1, EmptySeq
  <2>3. ASSUME NEW i \in 1 .. last PROVE SubSeq(r, 1, last)[i] = r[i]
    <3>1. 1 + i - 1 = i /\ i \in 1 .. last - 1 + 1
      BY <1>4
    <3> QED
      BY <2>1, <3>1
  <2>4. packets' = SubSeq(r, 1, last)
    BY <1>5
  <2> QED
    BY <2>1, <2>2, <2>3, <2>4
<1>7. /\ rest \in Record /\ WellFormed(rest) /\ Numbers(rest) \subseteq Numbers(r)
      /\ \A i \in 1 .. Len(rest) : last + i \in 1 .. Len(r) /\ rest[i] = r[last + i]
  <2>1. /\ rest \in Record /\ WellFormed(rest) /\ Numbers(rest) \subseteq Numbers(r)
        /\ Len(rest) = IF last + 1 <= Len(r) THEN Len(r) - (last + 1) + 1 ELSE 0
        /\ \A i \in 1 .. Len(r) - (last + 1) + 1 : rest[i] = r[(last + 1) + i - 1]
    <3> DEFINE m == last + 1
               l == Len(r)
    <3>1. m \in 1 .. Len(r) + 1 /\ l \in 0 .. Len(r) /\ r \in Record /\ WellFormed(r)
      BY <1>3, <1>4
    <3>2. rest = SubSeq(r, m, l)
      OBVIOUS
    <3> HIDE DEF m, l, rest
    <3>3. /\ rest \in Record /\ WellFormed(rest) /\ Numbers(rest) \subseteq Numbers(r)
          /\ Len(rest) = IF m <= l THEN l - m + 1 ELSE 0
          /\ \A i \in 1 .. l - m + 1 : rest[i] = r[m + i - 1]
      BY ONLY <3>1, <3>2, PieceWellFormed
    <3> QED
      BY <3>3 DEF m, l
  <2> HIDE DEF rest
  <2>2. ASSUME NEW i \in 1 .. Len(rest) PROVE last + i \in 1 .. Len(r) /\ rest[i] = r[last + i]
    <3>1. Len(rest) = Len(r) - last
      <4>1. CASE last + 1 <= Len(r)
        <5>1. Len(rest) = Len(r) - (last + 1) + 1
          BY <2>1, <4>1
        <5> QED
          BY <1>4, <5>1
      <4>2. CASE ~ (last + 1 <= Len(r))
        <5>1. Len(rest) = 0
          BY <2>1, <4>2
        <5> QED
          BY <1>4, <4>2, <5>1
      <4> QED
        BY <4>1, <4>2
    <3>2. /\ (last + 1) + i - 1 = last + i /\ last + i \in 1 .. Len(r)
          /\ i \in 1 .. Len(r) - (last + 1) + 1
      <4> DEFINE l == Len(r)
      <4>1. l \in Nat /\ last \in 1 .. l /\ i \in 1 .. l - last
        BY <1>4, <3>1
      <4> HIDE DEF l
      <4>2. /\ (last + 1) + i - 1 = last + i /\ last + i \in 1 .. l
            /\ i \in 1 .. l - (last + 1) + 1
        BY ONLY <4>1
      <4> QED
        BY <4>2 DEF l
    <3> QED
      BY <2>1, <3>2
  <2> QED
    BY <2>1, <2>2
<1>8. Before(Numbers(packets'), Numbers(rest))
  BY <1>3, <1>4, <1>6, <1>7, PiecesInOrder
<1>9. PICK d \in 0 .. 1 :
        /\ Len(records') = Len(records) - d
        /\ \A k \in 1 .. Len(records') :
             \/ k = 1 /\ records'[k] = rest
             \/ k + d \in 2 .. Len(records) /\ records'[k] = records[k + d]
  <2> HIDE DEF rest, missing
  <2>1. records' = Tail(records) \/ records' = [records EXCEPT ![1] = rest]
    BY <1>5
  <2>2. records \in Seq(Record) /\ records # <<>> /\ rest \in Record
    BY <1>1, <1>3, <1>7
  <2> QED
    BY ONLY <2>1, <2>2, RecordsAfterRead
<1>10. records' \in Seq(Record)
  <2> HIDE DEF rest, missing
  <2>1. records' = Tail(records) \/ records' = [records EXCEPT ![1] = rest]
    BY <1>5
  <2> QED
    BY <1>1, <1>3, <1>7, <2>1, RecordsAfterRead
<1>11. /\ a \in Nat /\ arrived \in Nat /\ r[last].end <= Last(r).end
       /\ n \in Nat /\ n <= RequestBuffer /\ (n = arrived \/ n = RequestBuffer)
       /\ Last(r).end \in Nat /\ r[last].end \in Nat
  <2>1. 1 \in 1 .. Len(r) /\ Len(r) \in 1 .. Len(r)
    BY <1>4
  <2>2. /\ r[1] \in Packet /\ r[last] \in Packet /\ r[Len(r)] \in Packet
    BY <1>4, <2>1
  <2>3. /\ a \in Int /\ r[1].end \in Nat /\ r[last].end \in Nat /\ Last(r).end \in Nat
        /\ a <= r[1].end /\ Start(Last(r)) \in Int /\ Start(Last(r)) <= Last(r).end
    <3>1. a = Start(r[1]) /\ Last(r) = r[Len(r)]
      BY <1>4
    <3>2. Start(r[1]) \in Int /\ r[1].end \in Nat /\ Start(r[1]) <= r[1].end
      BY <2>2, StartBeforeEnd
    <3>3. r[last].end \in Nat
      BY <2>2, StartBeforeEnd
    <3>4. /\ Start(r[Len(r)]) \in Int /\ r[Len(r)].end \in Nat
          /\ Start(r[Len(r)]) <= r[Len(r)].end
      BY <2>2, StartBeforeEnd
    <3> HIDE DEF a
    <3> QED
      BY <3>1, <3>2, <3>3, <3>4
  <2>4. a >= 0
    BY <1>3, <1>4, <2>1 DEF WellFormed
  <2>5. r[1].end <= Last(r).end
    <3>1. CASE Len(r) = 1
      BY <1>4, <2>3, <3>1
    <3>2. CASE 1 < Len(r)
      <4>1. r[1].end <= Start(Last(r))
        BY <1>3, <1>4, <2>1, <3>2 DEF WellFormed
      <4> QED
        BY <2>3, <4>1
    <3>3. Len(r) = 1 \/ 1 < Len(r)
      <4> DEFINE l == Len(r)
      <4>1. l \in Nat \ {0}
        BY <1>4
      <4> HIDE DEF l
      <4>2. l = 1 \/ 1 < l
        BY ONLY <4>1
      <4> QED
        BY <4>2 DEF l
    <3> QED
      BY <3>1, <3>2, <3>3
  <2>6. r[last].end <= Last(r).end
    <3>1. CASE last = Len(r)
      BY <1>4, <2>3, <3>1
    <3>2. CASE last < Len(r)
      <4>1. r[last].end <= Start(Last(r))
        BY <1>3, <1>4, <2>1, <3>2 DEF WellFormed
      <4> QED
        BY <2>3, <4>1
    <3> QED
      BY <1>4, <3>1, <3>2
  <2> QED
    BY <2>3, <2>4, <2>5, <2>6
<1>12. /\ Size(r[last]) \in Nat /\ Start(r[last]) = r[last].end - Size(r[last])
  BY <1>4, PacketNumbers
<1>13. torn' => oversized
  <2>1. \A i \in 1 .. Len(r) : r[i].end > RequestBuffer => oversized
    BY <1>3 DEF ProviderInv, BufferInv
  <2>2. Last(r).end > RequestBuffer => oversized
    <3>1. Len(r) \in 1 .. Len(r) /\ Last(r) = r[Len(r)]
      BY <1>4
    <3> QED
      BY ONLY <2>1, <3>1
  <2>3. ASSUME torn' PROVE Last(r).end > RequestBuffer
    <3>1. missing > 0
      BY <1>5, <2>3
    <3> QED
      BY <1>11, <3>1
  <2> QED
    BY <2>2, <2>3
<1>14. Fill'
  <2>1. packets'[1] = r[1] /\ packets'[Len(packets')] = r[last] /\ Start(packets'[1]) = a
    BY <1>4, <1>6
  <2>2. /\ Start(r[last]) - a < n /\ n <= r[last].end - a
        /\ torn' <=> n < r[last].end - a
    <3> DEFINE e == r[last].end
               size == Size(r[last])
    <3>1. /\ e \in Nat /\ size \in Nat /\ n \in Nat /\ a \in Nat /\ Start(r[last]) = e - size
          /\ missing = e - (a + n)
      BY <1>11, <1>12
    <3>2. missing \in 0 .. size - 1 /\ torn' = (missing > 0)
      BY <1>5
    <3> HIDE DEF a, n, e, size, missing
    <3>3. e - size - a < n /\ n <= e - a /\ (missing > 0 <=> n < e - a)
      BY <3>1, <3>2
    <3> QED
      BY <3>1, <3>2, <3>3 DEF e
  <2> HIDE DEF a, n
  <2>3. Fill' <=> /\ packets' = <<>> => nLen' = 0 /\ ~ torn'
                  /\ packets' # <<>> =>
                       LET p == packets'[Len(packets')]
                           b == Start(packets'[1])
                       IN /\ Start(p) - b < nLen'
                          /\ nLen' <= p.end - b
                          /\ torn' <=> nLen' < p.end - b
    BY DEF Fill, Start, Size
  <2> QED
    BY <1>5, <1>6, <2>1, <2>2, <2>3
<1> HIDE DEF rest, n, a, arrived, missing
<1>15. ProviderOK'
  <2>1. nLen' \in 0 .. UIntMod - 1
    BY <1>5, <1>11
  <2>2. torn' \in BOOLEAN
    BY <1>5
  <2> QED
    BY <1>1, <1>6, <1>10, <2>1, <2>2 DEF ProviderInv, ProviderOK
<1>16. RecordsOK'
  <2>1. ASSUME NEW k \in 1 .. Len(records') PROVE WellFormed(records'[k])
    <3>1. CASE records'[k] = rest
      BY <1>7, <3>1
    <3>2. CASE k + d \in 2 .. Len(records) /\ records'[k] = records[k + d]
      BY <3>2 DEF ProviderInv, RecordsOK
    <3> QED
      BY <1>9, <3>1, <3>2
  <2> QED
    BY <1>6, <2>1 DEF RecordsOK
<1>17. InOrder'
  <2>1. /\ Before(ToSet(handled) \cup Numbers(packets), Numbers(r))
        /\ Numbers(r) \subseteq 1 .. sent
        /\ ToSet(handled) \subseteq 1 .. sent /\ Increasing(handled)
    BY <1>3 DEF ProviderInv, InOrder
  <2>2. \A l \in 2 .. Len(records) :
          /\ Before(Numbers(r), Numbers(records[l]))
          /\ Before(ToSet(handled), Numbers(records[l]))
          /\ Numbers(records[l]) \subseteq 1 .. sent
    <3> SUFFICES ASSUME NEW l \in 2 .. Len(records)
                 PROVE /\ Before(Numbers(r), Numbers(records[l]))
                       /\ Before(ToSet(handled), Numbers(records[l]))
                       /\ Numbers(records[l]) \subseteq 1 .. sent
      OBVIOUS
    <3>1. l \in 1 .. Len(records) /\ 1 < l
      BY <1>3
    <3>2. Before(Numbers(records[1]), Numbers(records[l]))
      BY <1>3, <3>1 DEF ProviderInv, InOrder
    <3>3. /\ Before(ToSet(handled) \cup Numbers(packets), Numbers(records[l]))
          /\ Numbers(records[l]) \subseteq 1 .. sent
      BY <3>1 DEF ProviderInv, InOrder
    <3> QED
      BY <1>3, <3>2, <3>3 DEF Before
  <2>3. Before(ToSet(handled), Numbers(packets')) /\ ToSet(handled) \cup Numbers(packets') \subseteq 1 .. sent
    BY <1>6, <2>1 DEF Before
  <2>4. ASSUME NEW k \in 1 .. Len(records')
        PROVE /\ Before(ToSet(handled) \cup Numbers(packets'), Numbers(records'[k]))
              /\ Numbers(records'[k]) \subseteq 1 .. sent
    <3>1. CASE records'[k] = rest
      <4>1. Before(ToSet(handled), Numbers(rest))
        BY <1>7, <2>1 DEF Before
      <4> QED
        BY <1>7, <1>8, <2>1, <3>1, <4>1 DEF Before
    <3>2. CASE k + d \in 2 .. Len(records) /\ records'[k] = records[k + d]
      <4>1. /\ Before(Numbers(r), Numbers(records'[k]))
            /\ Before(ToSet(handled), Numbers(records'[k]))
            /\ Numbers(records'[k]) \subseteq 1 .. sent
        BY <2>2, <3>2
      <4> QED
        BY <1>6, <4>1 DEF Before
    <3> QED
      BY <1>9, <3>1, <3>2
  <2>5. ASSUME NEW k \in 1 .. Len(records'), NEW l \in 1 .. Len(records'), k < l
        PROVE Before(Numbers(records'[k]), Numbers(records'[l]))
    <3>1. l + d \in 2 .. Len(records) /\ records'[l] = records[l + d]
      BY <1>9, <2>5
    <3>2. CASE records'[k] = rest
      <4>1. Before(Numbers(r), Numbers(records'[l]))
        BY <2>2, <3>1
      <4> QED
        BY <1>7, <3>2, <4>1 DEF Before
    <3>3. CASE k + d \in 2 .. Len(records) /\ records'[k] = records[k + d]
      <4>1. k + d \in 1 .. Len(records) /\ l + d \in 1 .. Len(records) /\ k + d < l + d
        <5>1. k \in Int /\ l \in Int /\ d \in Int /\ k < l
          BY <2>5
        <5>2. k + d \in 2 .. Len(records) /\ l + d \in 2 .. Len(records)
          BY <3>1, <3>3
        <5>3. \A m, n1, e \in Int : m < n1 => m + e < n1 + e
          OBVIOUS
        <5>4. k + d < l + d
          BY <5>1, <5>3
        <5> QED
          BY <5>2, <5>4
      <4> QED
        BY <3>1, <3>3, <4>1 DEF ProviderInv, InOrder
    <3> QED
      BY <1>9, <3>2, <3>3
  <2> QED
    BY <1>1, <2>1, <2>3, <2>4, <2>5 DEF InOrder, Increasing
<1>18. BufferInv'
  <2>1. ASSUME NEW k \in 1 .. Len(records'), NEW i \in 1 .. Len(records'[k]),
               records'[k][i].end > RequestBuffer
        PROVE oversized
    <3>1. \A l \in 1 .. Len(records) : \A j \in 1 .. Len(records[l]) :
            records[l][j].end > RequestBuffer => oversized
      BY DEF ProviderInv, BufferInv
    <3>2. CASE records'[k] = rest
      <4>1. last + i \in 1 .. Len(records[1]) /\ records[1][last + i].end > RequestBuffer
        BY <1>3, <1>7, <2>1, <3>2
      <4> QED
        BY <1>3, <3>1, <4>1
    <3>3. CASE k + d \in 2 .. Len(records) /\ records'[k] = records[k + d]
      <4>1. k + d \in 1 .. Len(records)
        BY <3>3
      <4> QED
        BY <2>1, <3>1, <3>3, <4>1
    <3> QED
      BY <1>9, <3>2, <3>3
  <2>2. nLen' <= RequestBuffer
    BY <1>5, <1>11
  <2>3. discarded => oversized
    BY DEF ProviderInv, BufferInv
  <2> QED
    BY <1>1, <1>13, <1>14, <2>1, <2>2, <2>3 DEF BufferInv
<1> QED
  BY <1>15, <1>16, <1>17, <1>18 DEF ProviderInv

\* What is behind the first packet of a record is a well-formed record.
LEMMA TailWellFormed ==
  ASSUME NEW r \in Record, r # <<>>, WellFormed(r)
  PROVE /\ Tail(r) \in Record /\ WellFormed(Tail(r)) /\ Numbers(Tail(r)) \subseteq Numbers(r)
        /\ Len(r) \in Nat \ {0} /\ Len(Tail(r)) = Len(r) - 1
        /\ \A i \in 1 .. Len(Tail(r)) : i + 1 \in 1 .. Len(r) /\ Tail(r)[i] = r[i + 1]
<1>1. Len(r) \in Nat \ {0}
  BY EmptySeq DEF Record
<1>2. /\ Tail(r) \in Record /\ Len(Tail(r)) = Len(r) - 1
      /\ \A i \in 1 .. Len(Tail(r)) : Tail(r)[i] = r[i + 1]
  BY HeadTailProperties DEF Record
<1>3. Tail(r) = SubSeq(r, 2, Len(r))
  BY TailIsSubSeq DEF Record
<1>4. 2 \in 1 .. Len(r) + 1 /\ Len(r) \in 0 .. Len(r)
  BY <1>1
<1>5. WellFormed(Tail(r)) /\ Numbers(Tail(r)) \subseteq Numbers(r)
  BY <1>3, <1>4, PieceWellFormed
<1> QED
  BY <1>1, <1>2, <1>5

\* A buffer with n bytes holds its first packet, unless that is the last one and
\* cut; and when it has been taken, the buffer holds what is left.
LEMMA FrontOfBuffer ==
  ASSUME NEW r \in Record, r # <<>>, WellFormed(r), NEW n \in Nat, NEW cut \in BOOLEAN,
         Start(r[Len(r)]) - Start(r[1]) < n,
         n <= r[Len(r)].end - Start(r[1]),
         cut <=> n < r[Len(r)].end - Start(r[1])
  PROVE LET t == Tail(r)
            m == n - Size(r[1])
        IN /\ r[1] \in Packet
           /\ n < Size(r[1]) => cut
           /\ n >= Size(r[1]) =>
                /\ t = <<>> => m = 0 /\ ~ cut
                /\ t # <<>> => /\ Start(t[Len(t)]) - Start(t[1]) < m
                               /\ m <= t[Len(t)].end - Start(t[1])
                               /\ cut <=> m < t[Len(t)].end - Start(t[1])
<1> DEFINE t == Tail(r)
           p == r[1]
           last == r[Len(r)]
<1>1. Len(r) \in Nat \ {0} /\ 1 \in 1 .. Len(r) /\ Len(r) \in 1 .. Len(r)
  BY TailWellFormed
<1>2. p \in Packet /\ last \in Packet
  BY <1>1, RecordElements
<1>3. /\ Start(p) \in Int /\ Start(last) \in Int /\ Size(p) \in Nat /\ Size(last) \in Nat
      /\ p.end \in Nat /\ last.end \in Nat
      /\ Start(p) = p.end - Size(p) /\ Start(last) = last.end - Size(last)
  BY <1>2, PacketNumbers
<1>4. /\ Start(last) - Start(p) < n /\ n <= last.end - Start(p)
      /\ cut <=> n < last.end - Start(p)
  OBVIOUS
<1>5. Len(t) = Len(r) - 1 /\ \A i \in 1 .. Len(t) : t[i] = r[i + 1]
  BY TailWellFormed
<1>6. t \in Seq(Packet) /\ t = <<>> <=> Len(t) = 0
  <2>1. t \in Seq(Packet)
    BY TailWellFormed DEF Record
  <2> HIDE DEF t
  <2> QED
    BY <2>1, EmptySeq
<1>7. 1 < Len(r) => p.end <= Start(last) /\ Start(r[2]) = p.end
  <2> SUFFICES ASSUME 1 < Len(r) PROVE p.end <= Start(last) /\ Start(r[2]) = p.end
    OBVIOUS
  <2>1. p.end <= Start(last)
    BY <1>1 DEF WellFormed
  <2>2. 1 + 1 <= Len(r)
    BY <1>1
  <2>3. Start(r[1 + 1]) = p.end
    BY <1>1, <2>2 DEF WellFormed
  <2> QED
    BY <2>1, <2>3
<1>8. CASE Len(r) = 1
  <2>1. t = <<>> /\ last = p
    BY <1>5, <1>6, <1>8
  <2> DEFINE size == Size(p)
             sp == Start(p)
             ep == p.end
  <2>0. /\ size \in Nat /\ sp \in Int /\ ep \in Nat /\ sp = ep - size
        /\ n <= ep - sp /\ (cut <=> n < ep - sp)
    BY <1>3, <1>4, <2>1
  <2> HIDE DEF t, p, last, size, sp, ep
  <2>2. n < size => cut
    BY ONLY <2>0, n \in Nat, cut \in BOOLEAN
  <2>3. n >= size => n - size = 0 /\ ~ cut
    BY ONLY <2>0, n \in Nat, cut \in BOOLEAN
  <2> QED
    BY <1>2, <2>1, <2>2, <2>3 DEF t, p, size
<1>9. CASE 1 < Len(r)
  <2>1. /\ Len(t) \in 1 .. Len(r) /\ 1 \in 1 .. Len(t) /\ Len(t) \in 1 .. Len(t)
        /\ Len(t) + 1 = Len(r) /\ 1 + 1 = 2
    BY <1>1, <1>5, <1>9
  <2>2. t # <<>> /\ t[1] = r[2] /\ t[Len(t)] = last
    <3> HIDE DEF t
    <3>1. t # <<>>
      BY <1>6, <2>1
    <3>2. t[1] = r[1 + 1] /\ t[Len(t)] = r[Len(t) + 1]
      BY <1>5, <2>1
    <3> QED
      BY <2>1, <3>1, <3>2
  <2>3. Start(t[1]) = p.end /\ p.end <= Start(last)
    BY <1>7, <1>9, <2>2
  <2> DEFINE last2 == t[Len(t)]
             b == Start(t[1])
  <2>4. last2 = last /\ b = p.end
    BY <2>2, <2>3
  <2> HIDE DEF t, p, last, last2, b
  <2> DEFINE sp == Start(p)
             sl == Start(last)
             size == Size(p)
             ep == p.end
             el == last.end
  <2>5. /\ sp \in Int /\ sl \in Int /\ size \in Nat /\ ep \in Nat /\ el \in Nat
        /\ sp = ep - size /\ sl - sp < n /\ n <= el - sp /\ (cut <=> n < el - sp) /\ ep <= sl
    BY <1>3, <1>4, <2>3
  <2>6. Start(last2) = sl /\ last2.end = el /\ b = ep
    BY <2>4
  <2> HIDE DEF sp, sl, size, ep, el
  <2>7. /\ n >= size /\ sl - ep < n - size /\ n - size <= el - ep
        /\ cut <=> n - size < el - ep
    BY ONLY <2>5, n \in Nat, cut \in BOOLEAN
  <2>8. /\ Start(last2) - b < n - Size(p)
        /\ n - Size(p) <= last2.end - b
        /\ cut <=> n - Size(p) < last2.end - b
    BY <2>6, <2>7 DEF size
  <2>9. ~ n < Size(p)
    BY ONLY <2>5, <2>7, n \in Nat DEF size
  <2> QED
    BY <1>2, <2>2, <2>8, <2>9 DEF t, p, last2, b
<1>10. Len(r) = 1 \/ 1 < Len(r)
  <2> DEFINE l == Len(r)
  <2>1. l \in Nat \ {0}
    BY <1>1
  <2> HIDE DEF l
  <2>2. l = 1 \/ 1 < l
    BY ONLY <2>1
  <2> QED
    BY <2>2 DEF l
<1> QED
  BY <1>8, <1>9, <1>10

Below(s, n) == \A x \in ToSet(s) : x < n

\* A number larger than all before it may follow them.
LEMMA IncreasingAppend ==
  ASSUME NEW M \in Nat, NEW s \in Seq(1 .. M), Increasing(s), NEW n \in 1 .. M, Below(s, n)
  PROVE /\ Append(s, n) \in Seq(1 .. M) /\ Increasing(Append(s, n))
        /\ ToSet(Append(s, n)) = ToSet(s) \cup {n}
<1> DEFINE t == Append(s, n)
           S == 1 .. M
<1>0. s \in Seq(S) /\ n \in S
  OBVIOUS
<1> HIDE DEF S
<1>1. /\ Len(s) \in Nat /\ DOMAIN s = 1 .. Len(s)
      /\ t \in Seq(S) /\ Len(t) = Len(s) + 1 /\ DOMAIN t = 1 .. Len(s) + 1
      /\ \A i \in 1 .. Len(s) : t[i] = s[i]
      /\ t[Len(s) + 1] = n
  BY <1>0, AppendProperties, LenProperties
<1> HIDE DEF t
<1>2. ASSUME NEW i \in DOMAIN t, NEW j \in DOMAIN t, i < j PROVE t[i] < t[j]
  <2>1. i \in 1 .. Len(s)
    BY <1>1, <1>2
  <2>2. CASE j \in 1 .. Len(s)
    BY <1>1, <1>2, <2>1, <2>2 DEF Increasing
  <2>3. CASE j = Len(s) + 1
    <3>1. s[i] \in ToSet(s)
      BY <1>1, <2>1 DEF ToSet
    <3> QED
      BY <1>1, <2>1, <2>3, <3>1 DEF Below
  <2> QED
    BY <1>1, <2>2, <2>3
<1>3. ToSet(t) = ToSet(s) \cup {n}
  <2>1. ASSUME NEW i \in DOMAIN t PROVE t[i] \in ToSet(s) \cup {n}
    <3>1. CASE i \in 1 .. Len(s)
      BY <1>1, <3>1 DEF ToSet
    <3>2. CASE i = Len(s) + 1
      BY <1>1, <3>2
    <3> QED
      BY <1>1, <3>1, <3>2
  <2>2. ASSUME NEW i \in DOMAIN s PROVE s[i] \in ToSet(t)
    <3>1. i \in DOMAIN t /\ t[i] = s[i]
      BY <1>1
    <3> QED
      BY <3>1 DEF ToSet
  <2>3. n \in ToSet(t)
    <3>1. Len(s) + 1 \in DOMAIN t
      BY <1>1
    <3> QED
      BY <1>1, <3>1 DEF ToSet
  <2> QED
    BY <2>1, <2>2, <2>3 DEF ToSet
<1> QED
  BY <1>1, <1>2, <1>3 DEF Increasing, t, S

\* The packet at the front: all of it is in the buffer, or it is cut, and then the
\* length that was read lets nLen wrap if it passes the check at all.
LEMMA TakesStep == ProviderInv /\ ProcessRecvMsg => ProviderInv'
<1> SUFFICES ASSUME ProviderInv, ProcessRecvMsg PROVE ProviderInv'
  OBVIOUS
<1> DEFINE p == packets[1]
           t == Tail(packets)
<1>1. /\ fState = "kProcessingRequest" /\ nLen > 0 /\ packets' = t
      /\ UNCHANGED <<sent, records, torn, oversized, discarded>>
  BY DEF ProcessRecvMsg
<1>2. PICK len \in PayloadLengths(Head(packets)) :
        /\ LongEnough(len) /\ nLen' = Left(len)
        /\ fState' = IF nLen' > RequestBuffer THEN "dead" ELSE fState
        /\ IF nLen >= len + 37 THEN PacketHandle(Head(packets)) ELSE UNCHANGED <<handled, sendVars>>
  BY DEF ProcessRecvMsg
<1>3. /\ Fill /\ nLen <= RequestBuffer /\ (torn => oversized)
      /\ nLen \in Nat /\ packets \in Record /\ WellFormed(packets) /\ torn \in BOOLEAN
      /\ sent \in 0 .. MaxPackets /\ handled \in Seq(1 .. MaxPackets)
  BY <1>1 DEF ProviderInv, ProviderOK, BufferInv, RecordsOK
<1>4. packets # <<>> /\ Head(packets) = p
  BY <1>1, <1>3 DEF Fill, Record
<1>5. /\ Start(packets[Len(packets)]) - Start(p) < nLen
      /\ nLen <= packets[Len(packets)].end - Start(p)
      /\ torn <=> nLen < packets[Len(packets)].end - Start(p)
  BY <1>3, <1>4 DEF Fill
<1>6. /\ p \in Packet
      /\ nLen < Size(p) => torn
      /\ nLen >= Size(p) =>
           /\ t = <<>> => nLen - Size(p) = 0 /\ ~ torn
           /\ t # <<>> => /\ Start(t[Len(t)]) - Start(t[1]) < nLen - Size(p)
                          /\ nLen - Size(p) <= t[Len(t)].end - Start(t[1])
                          /\ torn <=> nLen - Size(p) < t[Len(t)].end - Start(t[1])
  BY <1>3, <1>4, <1>5, FrontOfBuffer
<1>7. /\ p.len \in Nat /\ Size(p) = 37 + p.len /\ p.nr \in 1 .. MaxPackets
  BY <1>6, PacketNumbers
<1>8. /\ t \in Record /\ WellFormed(t) /\ Numbers(t) \subseteq Numbers(packets)
      /\ Len(packets) \in Nat \ {0} /\ 1 \in 1 .. Len(packets)
      /\ \A i \in 1 .. Len(t) : i + 1 \in 1 .. Len(packets) /\ t[i] = packets[i + 1]
  BY <1>3, <1>4, TailWellFormed
<1>9. len \in PayloadLengths(p)
  BY <1>2, <1>4
<1>10. p.nr \in Numbers(packets) /\ Before({p.nr}, Numbers(t))
  <2>1. p.nr \in Numbers(packets)
    BY <1>8 DEF Numbers
  <2>2. ASSUME NEW i \in 1 .. Len(t) PROVE p.nr < t[i].nr
    <3>1. i + 1 \in 1 .. Len(packets) /\ 1 < i + 1 /\ t[i] = packets[i + 1]
      BY <1>8
    <3> QED
      BY <1>3, <1>8, <3>1 DEF WellFormed
  <2> HIDE DEF p, t
  <2> QED
    BY <2>1, <2>2 DEF Before, Numbers
<1> HIDE DEF p, t
<1>11. /\ nLen' \in 0 .. UIntMod - 1
       /\ nLen < Size(p) => nLen' > RequestBuffer /\ UNCHANGED handled
       /\ nLen >= Size(p) => /\ nLen' = nLen - Size(p) /\ nLen' <= RequestBuffer
                             /\ handled' = Append(handled, p.nr)
  <2>1. len \in Nat /\ (nLen # 36 => len = p.len)
    BY <1>7, <1>9 DEF PayloadLengths
  <2>2. nLen > 35 /\ nLen >= len + 35
    BY <1>2 DEF LongEnough
  <2>3. nLen' = IF nLen >= len + 37 THEN nLen - (len + 37) ELSE nLen + UIntMod - (len + 37)
    BY <1>2 DEF Left
  <2> DEFINE size == Size(p)
             plen == p.len
             left == nLen'
  <2>4. /\ nLen \in Nat /\ nLen <= RequestBuffer /\ size \in Nat /\ plen \in Nat
        /\ size = 37 + plen /\ (nLen # 36 => len = plen)
        /\ left = IF nLen >= len + 37 THEN nLen - (len + 37) ELSE nLen + UIntMod - (len + 37)
    BY <1>3, <1>7, <2>1, <2>3
  <2> HIDE DEF size, plen, left
  <2>5. /\ left \in 0 .. UIntMod - 1
        /\ nLen < size => left > RequestBuffer /\ ~ nLen >= len + 37
        /\ nLen >= size => left = nLen - size /\ left <= RequestBuffer /\ nLen >= len + 37
    <3>1. len \in Nat /\ left \in Int
      BY ONLY <2>1, <2>4, AndroidAssumption
    <3>2. CASE nLen < size
      <4>1. ~ nLen >= len + 37
        BY ONLY <2>1, <2>2, <2>4, <3>1, <3>2
      <4>2. left = nLen + UIntMod - (len + 37)
        BY ONLY <2>4, <4>1
      <4>3. nLen - (len + 37) \in {-2, -1}
        BY ONLY <2>2, <2>4, <3>1, <4>1
      <4>4. left = UIntMod - 2 \/ left = UIntMod - 1
        BY ONLY <2>4, <3>1, <4>2, <4>3, AndroidAssumption
      <4>5. left \in 0 .. UIntMod - 1 /\ left > RequestBuffer
        BY ONLY <2>2, <2>4, <3>1, <4>4, AndroidAssumption
      <4>6. ~ nLen >= size
        BY ONLY <2>4, <3>2
      <4> QED
        BY ONLY <4>1, <4>5, <4>6
    <3>3. CASE nLen >= size
      <4>1. nLen >= len + 37 /\ len + 37 = size
        BY ONLY <2>1, <2>2, <2>4, <3>1, <3>3
      <4>2. left = nLen - size
        BY ONLY <2>4, <4>1
      <4>3. left \in 0 .. UIntMod - 1 /\ left <= RequestBuffer
        BY ONLY <2>4, <3>1, <3>3, <4>2, AndroidAssumption
      <4> QED
        BY ONLY <2>4, <3>3, <4>1, <4>2, <4>3
    <3> QED
      BY ONLY <2>4, <3>2, <3>3
  <2>6. nLen >= len + 37 => handled' = Append(handled, p.nr)
    BY <1>2, <1>4 DEF PacketHandle
  <2>7. ~ nLen >= len + 37 => UNCHANGED handled
    BY <1>2
  <2> QED
    BY <2>5, <2>6, <2>7 DEF size, left
<1>12. fState' = IF nLen < Size(p) THEN "dead" ELSE "kProcessingRequest"
  <2> DEFINE size == Size(p)
             left == nLen'
  <2>1. /\ nLen \in Nat /\ size \in Nat /\ left \in 0 .. UIntMod - 1
        /\ nLen < size => left > RequestBuffer
        /\ nLen >= size => left <= RequestBuffer
    <3>1. nLen \in Nat
      BY <1>3
    <3>2. size \in Nat
      BY <1>7
    <3>3. left \in 0 .. UIntMod - 1
      BY <1>11
    <3>4. /\ nLen < size => left > RequestBuffer
          /\ nLen >= size => left <= RequestBuffer
      BY <1>11
    <3> QED
      BY <3>1, <3>2, <3>3, <3>4
  <2> HIDE DEF size, left
  <2>2. left > RequestBuffer <=> nLen < size
    BY ONLY <2>1, AndroidAssumption
  <2> QED
    BY <1>1, <1>2, <2>2 DEF size, left
<1>13. /\ Before(ToSet(handled), Numbers(packets))
       /\ ToSet(handled) \cup Numbers(packets) \subseteq 1 .. sent
       /\ Increasing(handled)
  BY DEF ProviderInv, InOrder
<1>14. /\ handled' \in Seq(1 .. MaxPackets) /\ Increasing(handled)'
       /\ ToSet(handled') \subseteq ToSet(handled) \cup {p.nr}
  <2>1. CASE nLen < Size(p)
    <3>1. handled' = handled
      BY <1>11, <2>1
    <3> QED
      BY <1>3, <1>13, <3>1 DEF Increasing
  <2>2. CASE nLen >= Size(p)
    <3>1. handled' = Append(handled, p.nr)
      BY <1>11, <2>2
    <3>2. \A x \in ToSet(handled) : x < p.nr
      BY <1>10, <1>13 DEF Before
    <3>4. /\ Append(handled, p.nr) \in Seq(1 .. MaxPackets) /\ Increasing(Append(handled, p.nr))
          /\ ToSet(Append(handled, p.nr)) = ToSet(handled) \cup {p.nr}
      <4>1. handled \in Seq(1 .. MaxPackets) /\ Increasing(handled) /\ p.nr \in 1 .. MaxPackets
        BY <1>3, <1>7, <1>13
      <4> DEFINE x == p.nr
      <4>2. MaxPackets \in Nat /\ x \in 1 .. MaxPackets /\ Below(handled, x)
        BY <3>2, <4>1 DEF Below
      <4> HIDE DEF x
      <4>3. /\ Append(handled, x) \in Seq(1 .. MaxPackets) /\ Increasing(Append(handled, x))
            /\ ToSet(Append(handled, x)) = ToSet(handled) \cup {x}
        BY ONLY <4>1, <4>2, IncreasingAppend
      <4> QED
        BY <4>3 DEF x
    <3> QED
      BY <3>1, <3>4 DEF Increasing
  <2> QED
    BY <1>3, <1>7, <2>1, <2>2
<1>15. ProviderOK'
  BY <1>1, <1>3, <1>8, <1>11, <1>12, <1>14 DEF ProviderInv, ProviderOK
<1>16. RecordsOK'
  BY <1>1, <1>8 DEF ProviderInv, RecordsOK
<1>17. InOrder'
  <2>1. ToSet(handled') \cup Numbers(packets') \subseteq ToSet(handled) \cup Numbers(packets)
    BY <1>1, <1>8, <1>10, <1>14
  <2>2. Before(ToSet(handled'), Numbers(packets'))
    BY <1>1, <1>8, <1>10, <1>13, <1>14 DEF Before
  <2>3. ASSUME NEW k \in 1 .. Len(records)
        PROVE /\ Before(ToSet(handled') \cup Numbers(packets'), Numbers(records[k]))
              /\ Numbers(records[k]) \subseteq 1 .. sent
    <3>1. /\ Before(ToSet(handled) \cup Numbers(packets), Numbers(records[k]))
          /\ Numbers(records[k]) \subseteq 1 .. sent
      BY DEF ProviderInv, InOrder
    <3> QED
      BY <2>1, <3>1 DEF Before
  <2>4. \A k, l \in 1 .. Len(records) : k < l => Before(Numbers(records[k]), Numbers(records[l]))
    BY DEF ProviderInv, InOrder
  <2>5. records' = records /\ sent' = sent
    BY <1>1
  <2> QED
    BY <1>13, <1>14, <2>1, <2>2, <2>3, <2>4, <2>5 DEF InOrder
<1>18. BufferInv'
  <2>1. nLen < Size(p) => oversized
    BY <1>3, <1>6
  <2>2. nLen >= Size(p) => Fill' /\ nLen' <= RequestBuffer
    <3> SUFFICES ASSUME nLen >= Size(p) PROVE Fill'
      BY <1>11
    <3>1. nLen' = nLen - Size(p) /\ packets' = t /\ torn' = torn
      BY <1>1, <1>11
    <3> QED
      BY <1>6, <3>1 DEF Fill
  <2>3. /\ discarded => oversized
        /\ \A k \in 1 .. Len(records) : \A i \in 1 .. Len(records[k]) :
             records[k][i].end > RequestBuffer => oversized
    BY DEF ProviderInv, BufferInv
  <2> QED
    BY <1>1, <1>3, <1>7, <1>12, <2>1, <2>2, <2>3 DEF BufferInv
<1> QED
  BY <1>15, <1>16, <1>17, <1>18 DEF ProviderInv

\* Only a packet that is cut is refused.
LEMMA ErrorStep == ProviderInv /\ ParamError => ProviderInv'
<1> SUFFICES ASSUME ProviderInv, ParamError PROVE ProviderInv'
  OBVIOUS
<1> DEFINE p == packets[1]
<1>1. /\ fState = "kProcessingRequest" /\ fState' = "kCleaningUp" /\ nLen > 0
      /\ UNCHANGED <<sent, records, torn, oversized, packets, nLen, handled, discarded>>
  BY DEF ParamError
<1>2. PICK len \in PayloadLengths(Head(packets)) : ~ LongEnough(len)
  BY DEF ParamError
<1>3. /\ Fill /\ (torn => oversized)
      /\ nLen \in Nat /\ packets \in Record /\ WellFormed(packets) /\ torn \in BOOLEAN
  BY <1>1 DEF ProviderInv, ProviderOK, BufferInv, RecordsOK
<1>4. packets # <<>> /\ Head(packets) = p
  BY <1>1, <1>3 DEF Fill, Record
<1>5. /\ Start(packets[Len(packets)]) - Start(p) < nLen
      /\ nLen <= packets[Len(packets)].end - Start(p)
      /\ torn <=> nLen < packets[Len(packets)].end - Start(p)
  BY <1>3, <1>4 DEF Fill
<1>6. p \in Packet /\ (nLen < Size(p) => torn)
  BY <1>3, <1>4, <1>5, FrontOfBuffer
<1>7. p.len \in Nat /\ Size(p) = 37 + p.len
  BY <1>6, PacketNumbers
<1>8. len \in PayloadLengths(p)
  BY <1>2, <1>4
<1> HIDE DEF p
<1>9. nLen < Size(p)
  <2> SUFFICES ASSUME nLen >= Size(p) PROVE FALSE
    BY <1>3, <1>7
  <2>1. nLen >= 37 + p.len /\ nLen # 36
    BY <1>3, <1>7
  <2>2. len = p.len
    BY <1>8, <2>1 DEF PayloadLengths
  <2> QED
    BY <1>2, <1>3, <1>7, <2>1, <2>2 DEF LongEnough
<1>10. oversized
  BY <1>3, <1>6, <1>9
<1>11. ProviderOK' /\ RecordsOK'
  BY <1>1 DEF ProviderInv, ProviderOK, RecordsOK
<1>12. InOrder'
  BY <1>1 DEF ProviderInv, InOrder
<1>13. BufferInv'
  BY <1>1, <1>10 DEF ProviderInv, BufferInv
<1> QED
  BY <1>11, <1>12, <1>13 DEF ProviderInv

\* When the buffer is used up, nothing of its last packet is missing.
LEMMA EndStep == ProviderInv /\ EndOfBuffer => ProviderInv'
<1> SUFFICES ASSUME ProviderInv, EndOfBuffer PROVE ProviderInv'
  OBVIOUS
<1>1. /\ fState = "kProcessingRequest" /\ fState' = "kReadingRequest" /\ nLen = 0
      /\ UNCHANGED <<sent, records, torn, oversized, packets, nLen, handled, discarded>>
  BY DEF EndOfBuffer
<1>2. Fill /\ packets \in Record /\ WellFormed(packets) /\ torn \in BOOLEAN
  BY <1>1 DEF ProviderInv, ProviderOK, BufferInv, RecordsOK
<1>3. ~ torn
  <2>1. CASE packets = <<>>
    BY <1>2, <2>1 DEF Fill
  <2>2. CASE packets # <<>>
    <3> DEFINE p == packets[1]
               last == packets[Len(packets)]
    <3>1. Start(last) - Start(p) < 0
      BY <1>1, <1>2, <2>2 DEF Fill
    <3>2. Len(packets) \in Nat \ {0} /\ 1 \in 1 .. Len(packets) /\ Len(packets) \in 1 .. Len(packets)
      BY <1>2, <2>2, TailWellFormed
    <3>3. p \in Packet /\ last \in Packet
      BY <1>2, <3>2, RecordElements
    <3>4. Start(p) \in Int /\ p.end \in Nat /\ Start(p) <= p.end /\ Start(last) \in Int
      BY <3>3, StartBeforeEnd
    <3>5. 1 < Len(packets) => p.end <= Start(last)
      BY <1>2, <3>2 DEF WellFormed
    <3>6. Len(packets) = 1 => last = p
      OBVIOUS
    <3> DEFINE l == Len(packets)
    <3> HIDE DEF p, last, l
    <3>7. l \in Nat \ {0} /\ (1 < l => p.end <= Start(last)) /\ (l = 1 => last = p)
      BY <3>2, <3>5, <3>6 DEF l
    <3> QED
      BY <3>1, <3>4, <3>7
  <2> QED
    BY <2>1, <2>2
<1>4. ProviderOK' /\ RecordsOK'
  BY <1>1 DEF ProviderInv, ProviderOK, RecordsOK
<1>5. InOrder'
  BY <1>1 DEF ProviderInv, InOrder
<1>6. BufferInv'
  BY <1>1, <1>3 DEF ProviderInv, BufferInv
<1> QED
  BY <1>4, <1>5, <1>6 DEF ProviderInv

\* Records that are thrown away leave the later ones.
LEMMA CleanupStep == ProviderInv /\ CleanupRequest => ProviderInv'
<1> SUFFICES ASSUME ProviderInv, CleanupRequest PROVE ProviderInv'
  OBVIOUS
<1>1. /\ fState = "kCleaningUp" /\ fState' = "kReadingRequest" /\ discarded' = TRUE
      /\ torn' = FALSE /\ packets' = <<>> /\ nLen' = 0
      /\ UNCHANGED <<sent, oversized, handled>>
  BY DEF CleanupRequest
<1>2. PICK k \in 0 .. Len(records) : records' = SubSeq(records, k + 1, Len(records))
  BY DEF CleanupRequest
<1>3. /\ records \in Seq(Record) /\ Len(records) \in Nat
      /\ \A i \in 1 .. Len(records) : records[i] \in Record
  BY ElementOfSeq, LenProperties DEF ProviderInv, ProviderOK
<1>4. /\ records' \in Seq(Record) /\ Len(records') = Len(records) - k
      /\ \A i \in 1 .. Len(records') : k + i \in 1 .. Len(records) /\ records'[i] = records[k + i]
  <2> DEFINE l == Len(records)
             s == SubSeq(records, k + 1, l)
  <2>1. \A i \in k + 1 .. l : records[i] \in Record
    BY <1>3
  <2>2. /\ s \in Seq(Record) /\ Len(s) = IF k + 1 <= l THEN l - (k + 1) + 1 ELSE 0
        /\ \A i \in 1 .. l - (k + 1) + 1 : s[i] = records[(k + 1) + i - 1]
    BY <1>3, <2>1, SubSeqProperties
  <2> HIDE DEF s
  <2>3. l \in Nat /\ k \in 0 .. l
    BY <1>3
  <2> HIDE DEF l
  <2>4. l - (k + 1) + 1 = l - k /\ (~ k + 1 <= l => l - k = 0)
    BY <2>3
  <2>5. Len(s) = l - k
    BY <2>2, <2>4
  <2>6. ASSUME NEW i \in 1 .. Len(s) PROVE k + i \in 1 .. l /\ s[i] = records[k + i]
    <3>1. i \in 1 .. l - (k + 1) + 1 /\ (k + 1) + i - 1 = k + i /\ k + i \in 1 .. l
      BY <2>3, <2>5
    <3> QED
      BY <2>2, <3>1
  <2>7. records' = s
    BY <1>2 DEF s, l
  <2> QED
    BY <2>2, <2>5, <2>6, <2>7 DEF l
<1>5. ProviderOK'
  <2>1. packets' \in Record /\ nLen' \in 0 .. UIntMod - 1
    BY <1>1 DEF Record
  <2> QED
    BY <1>1, <1>4, <2>1 DEF ProviderInv, ProviderOK
<1>6. RecordsOK'
  <2>1. \A i \in 1 .. Len(records') : WellFormed(records'[i])
    BY <1>4 DEF ProviderInv, RecordsOK
  <2>2. WellFormed(packets')
    BY <1>1 DEF WellFormed
  <2> QED
    BY <2>1, <2>2 DEF RecordsOK
<1>7. InOrder'
  <2>1. Numbers(packets') = {}
    BY <1>1 DEF Numbers
  <2>2. ASSUME NEW i \in 1 .. Len(records'), NEW j \in 1 .. Len(records'), i < j
        PROVE Before(Numbers(records'[i]), Numbers(records'[j]))
    <3>1. k + i \in 1 .. Len(records) /\ k + j \in 1 .. Len(records) /\ k + i < k + j
      BY <1>3, <1>4, <2>2
    <3> QED
      BY <1>4, <3>1 DEF ProviderInv, InOrder
  <2>3. ASSUME NEW i \in 1 .. Len(records')
        PROVE Before(ToSet(handled), Numbers(records'[i])) /\ Numbers(records'[i]) \subseteq 1 .. sent
    <3>1. /\ Before(ToSet(handled) \cup Numbers(packets), Numbers(records'[i]))
          /\ Numbers(records'[i]) \subseteq 1 .. sent
      BY <1>4 DEF ProviderInv, InOrder
    <3> QED
      BY <3>1 DEF Before
  <2>4. ToSet(handled) \subseteq 1 .. sent /\ Increasing(handled)
    BY DEF ProviderInv, InOrder
  <2>5. handled' = handled /\ sent' = sent
    BY <1>1
  <2>6. Before(ToSet(handled), {})
    BY DEF Before
  <2> QED
    BY <2>1, <2>2, <2>3, <2>4, <2>5, <2>6 DEF InOrder
<1>8. BufferInv'
  <2>1. oversized
    BY <1>1 DEF ProviderInv, BufferInv
  <2> QED
    BY <1>1, <2>1 DEF BufferInv
<1> QED
  BY <1>5, <1>6, <1>7, <1>8 DEF ProviderInv

\* What the device and its session do leaves the provider's connection alone.
LEMMA ProviderStep == ProviderInv /\ [Next]_vars => ProviderInv'
<1> SUFFICES ASSUME ProviderInv, [Next]_vars PROVE ProviderInv'
  OBVIOUS
<1>1. CASE ProviderSends
  BY <1>1, SendsStep
<1>2. CASE SslSvrSession
  BY <1>2, ReadStep, TakesStep, ErrorStep, EndStep, CleanupStep DEF SslSvrSession
<1>3. ASSUME NEW cmd \in {"CONNECT", "PINGREQ", "DISCONNECT"}, DeviceSends(cmd) PROVE ProviderInv'
  BY <1>3, ProviderFrame DEF DeviceSends
<1>4. CASE MqttServer
  <2>1. UNCHANGED providerVars
    BY <1>4 DEF MqttServer, DeviceBytesArrive, BufferOverfilled, mqtt_handle_connect,
       ConnectRefused, mqtt_handle_pingreq, mqtt_handle_disconnect, ProtocolError,
       DeviceBytesForgotten, WriteEvent, SessionEnds, Concludes
  <2> QED
    BY <2>1, ProviderFrame
<1>5. CASE DeviceTakes
  BY <1>5, ProviderFrame DEF DeviceTakes
<1>6. CASE UNCHANGED vars
  BY <1>6, ProviderFrame DEF vars, providerVars
<1> QED
  BY <1>1, <1>2, <1>3, <1>4, <1>5, <1>6 DEF Next

LEMMA ProviderAlways == Spec => []ProviderInv
  BY ProviderInit, ProviderStep, PTL DEF Spec

\* The provider's packets are handled in their order, each at most once, and no
\* read begins inside a packet (SslSvrSession::Run, ProcessRecvMsg).
THEOREM HandledInOrder == Spec => []ProviderInStep
<1>1. ProviderInv => ProviderInStep
  BY DEF ProviderInv, InOrder, BufferInv, ProviderInStep
<1> QED
  BY <1>1, ProviderAlways, PTL

\* Two bytes too few in the check of a packet's length do no harm to batches that
\* fit in the buffer (SslSvrSession::ProcessRecvMsg).
THEOREM SmallBatches == Spec => []SmallBatchesAreSafe
<1>1. ProviderInv => SmallBatchesAreSafe
  BY DEF ProviderInv, BufferInv, SmallBatchesAreSafe, Alive
<1> QED
  BY <1>1, ProviderAlways, PTL

-----------------------------------------------------------------------------
(* What is on its way to the device.                                       *)

SendOK ==
  /\ fMsgList \in Seq(Message)
  /\ down \in Seq(Message)
  /\ blocks \in 0 .. MaxBlocks
  /\ published \subseteq Packet
  /\ dropped \subseteq 1 .. MaxPackets
  /\ inStep \in BOOLEAN
  /\ got \subseteq 1 .. MaxPackets

InTransit == ToSet(down) \cup ToSet(fMsgList)

NumbersOf(msgs) == {m.nr : m \in msgs} \ {0}

\* A PUBLISH has the number and the length of a push that was given to Send.
Genuine(m) ==
  /\ m.cmd = "PUBLISH" => \E p \in published : p.nr = m.nr /\ m.len = p.len + Appid
  /\ m.cmd # "PUBLISH" => m.nr = 0

LongPush == \E p \in published : p.len + Appid > 125

PushInv ==
  /\ \A m \in InTransit : Genuine(m) /\ (m.cut => blocks > 0)
  /\ fMsgList # <<>> => blocks > 0
  /\ dropped # {} => blocks > 0
  /\ ~ inStep => blocks > 0 \/ LongPush
  /\ inStep => {p.nr : p \in published} = got \cup NumbersOf(InTransit) \cup dropped

LEMMA ToSetEmpty == ToSet(<<>>) = {}
  BY DEF ToSet

LEMMA ToSetAppend ==
  ASSUME NEW S, NEW s \in Seq(S), NEW x \in S
  PROVE Append(s, x) \in Seq(S) /\ ToSet(Append(s, x)) = ToSet(s) \cup {x}
<1> DEFINE t == Append(s, x)
<1>1. /\ Len(s) \in Nat /\ DOMAIN s = 1 .. Len(s)
      /\ t \in Seq(S) /\ Len(t) = Len(s) + 1 /\ DOMAIN t = 1 .. Len(s) + 1
      /\ \A i \in 1 .. Len(s) : t[i] = s[i]
      /\ t[Len(s) + 1] = x
  BY AppendProperties, LenProperties
<1> HIDE DEF t
<1>2. ASSUME NEW i \in DOMAIN t PROVE t[i] \in ToSet(s) \cup {x}
  <2>1. CASE i \in 1 .. Len(s)
    BY <1>1, <2>1 DEF ToSet
  <2>2. CASE i = Len(s) + 1
    BY <1>1, <2>2
  <2> QED
    BY <1>1, <2>1, <2>2
<1>3. ASSUME NEW i \in DOMAIN s PROVE s[i] \in ToSet(t)
  <2>1. i \in DOMAIN t /\ t[i] = s[i]
    BY <1>1
  <2> QED
    BY <2>1 DEF ToSet
<1>4. x \in ToSet(t)
  <2>1. Len(s) + 1 \in DOMAIN t
    BY <1>1
  <2> QED
    BY <1>1, <2>1 DEF ToSet
<1>5. ToSet(t) = ToSet(s) \cup {x}
  BY <1>2, <1>3, <1>4 DEF ToSet
<1> QED
  BY <1>1, <1>5 DEF t

LEMMA ToSetTail ==
  ASSUME NEW S, NEW s \in Seq(S), s # <<>>
  PROVE /\ Head(s) \in S /\ Tail(s) \in Seq(S)
        /\ ToSet(s) = {Head(s)} \cup ToSet(Tail(s))
<1> DEFINE t == Tail(s)
<1>1. /\ Len(s) \in Nat \ {0} /\ DOMAIN s = 1 .. Len(s) /\ Head(s) = s[1]
      /\ Head(s) \in S /\ t \in Seq(S) /\ Len(t) = Len(s) - 1
      /\ \A i \in 1 .. Len(t) : t[i] = s[i + 1]
  BY HeadTailProperties, EmptySeq, LenProperties
<1>2. DOMAIN t = 1 .. Len(t)
  BY <1>1, LenProperties
<1> HIDE DEF t
<1>3. ASSUME NEW i \in DOMAIN s PROVE s[i] \in {Head(s)} \cup ToSet(t)
  <2>1. CASE i = 1
    BY <1>1, <2>1
  <2>2. CASE i # 1
    <3>1. i - 1 \in DOMAIN t /\ t[i - 1] = s[(i - 1) + 1] /\ (i - 1) + 1 = i
      BY <1>1, <1>2, <2>2
    <3> QED
      BY <3>1 DEF ToSet
  <2> QED
    BY <2>1, <2>2
<1>4. ASSUME NEW i \in DOMAIN t PROVE t[i] \in ToSet(s)
  <2>1. i + 1 \in DOMAIN s /\ t[i] = s[i + 1]
    BY <1>1, <1>2
  <2> QED
    BY <2>1 DEF ToSet
<1>5. Head(s) \in ToSet(s)
  <2>1. 1 \in DOMAIN s
    BY <1>1
  <2> QED
    BY <1>1, <2>1 DEF ToSet
<1>6. ToSet(s) = {Head(s)} \cup ToSet(t)
  BY <1>3, <1>4, <1>5 DEF ToSet
<1> QED
  BY <1>1, <1>6 DEF t

LEMMA ToSetConcat ==
  ASSUME NEW S, NEW s \in Seq(S), NEW t \in Seq(S)
  PROVE ToSet(s \o t) = ToSet(s) \cup ToSet(t)
<1> DEFINE u == s \o t
<1>1. /\ Len(s) \in Nat /\ DOMAIN s = 1 .. Len(s)
      /\ Len(t) \in Nat /\ DOMAIN t = 1 .. Len(t)
  BY LenProperties
<1>2. /\ u \in Seq(S) /\ Len(u) = Len(s) + Len(t)
      /\ \A i \in 1 .. Len(s) + Len(t) : u[i] = IF i <= Len(s) THEN s[i] ELSE t[i - Len(s)]
  BY ConcatProperties
<1>3. DOMAIN u = 1 .. Len(s) + Len(t)
  BY <1>2, LenProperties
<1> HIDE DEF u
<1>4. ASSUME NEW i \in DOMAIN u PROVE u[i] \in ToSet(s) \cup ToSet(t)
  <2>1. CASE i <= Len(s)
    <3>1. i \in DOMAIN s /\ u[i] = s[i]
      BY <1>1, <1>2, <1>3, <2>1
    <3> QED
      BY <3>1 DEF ToSet
  <2>2. CASE ~ i <= Len(s)
    <3>1. i - Len(s) \in DOMAIN t /\ u[i] = t[i - Len(s)]
      BY <1>1, <1>2, <1>3, <2>2
    <3> QED
      BY <3>1 DEF ToSet
  <2> QED
    BY <2>1, <2>2
<1>5. ASSUME NEW i \in DOMAIN s PROVE s[i] \in ToSet(u)
  <2>1. i \in DOMAIN u /\ u[i] = s[i]
    BY <1>1, <1>2, <1>3
  <2> QED
    BY <2>1 DEF ToSet
<1>6. ASSUME NEW i \in DOMAIN t PROVE t[i] \in ToSet(u)
  <2>1. i + Len(s) \in DOMAIN u /\ ~ i + Len(s) <= Len(s) /\ (i + Len(s)) - Len(s) = i
    BY <1>1, <1>3
  <2>2. u[i + Len(s)] = t[i]
    BY <1>2, <1>3, <2>1
  <2> QED
    BY <2>1, <2>2 DEF ToSet
<1>7. ToSet(u) = ToSet(s) \cup ToSet(t)
  BY <1>4, <1>5, <1>6 DEF ToSet
<1> QED
  BY <1>7 DEF u

\* Send puts one message on its way, perhaps in part.
LEMMA SendAdds ==
  ASSUME SendOK, NEW m \in Message, Send(m)
  PROVE /\ fMsgList' \in Seq(Message) /\ down' \in Seq(Message) /\ blocks' \in 0 .. MaxBlocks
        /\ blocks <= blocks'
        /\ fMsgList' # fMsgList => blocks' > 0
        /\ \E sent2 \in Message :
             /\ sent2.cmd = m.cmd /\ sent2.nr = m.nr /\ sent2.len = m.len
             /\ sent2.cut => m.cut \/ blocks' > 0
             /\ InTransit' = InTransit \cup {sent2}
<1> USE DEF SendOK, InTransit
<1>1. CASE down' = Append(down, m) /\ UNCHANGED <<fMsgList, blocks>>
  <2>1. down' \in Seq(Message) /\ ToSet(down') = ToSet(down) \cup {m}
    BY <1>1, ToSetAppend
  <2> QED
    BY <1>1, <2>1
<1>2. CASE /\ blocks < MaxBlocks /\ blocks' = blocks + 1
           /\ fMsgList' = Append(fMsgList, m) /\ UNCHANGED down
  <2>1. fMsgList' \in Seq(Message) /\ ToSet(fMsgList') = ToSet(fMsgList) \cup {m}
    BY <1>2, ToSetAppend
  <2>2. InTransit' = InTransit \cup {m}
    BY <1>2, <2>1
  <2> QED
    BY <1>2, <2>1, <2>2
<1>3. CASE /\ blocks < MaxBlocks /\ blocks' = blocks + 1
           /\ down' = Append(down, [m EXCEPT !.cut = TRUE]) /\ UNCHANGED fMsgList
  <2> DEFINE x == [m EXCEPT !.cut = TRUE]
  <2>1. x \in Message /\ x.cmd = m.cmd /\ x.nr = m.nr /\ x.len = m.len
    BY DEF Message
  <2>2. down' = Append(down, x)
    BY <1>3
  <2> HIDE DEF x
  <2>3. down' \in Seq(Message) /\ ToSet(down') = ToSet(down) \cup {x}
    BY <2>1, <2>2, ToSetAppend
  <2>4. InTransit' = InTransit \cup {x}
    BY <1>3, <2>3
  <2>5. blocks' > 0 /\ blocks <= blocks' /\ blocks' \in 0 .. MaxBlocks
    BY <1>3
  <2> QED
    BY <1>3, <2>1, <2>3, <2>4, <2>5
<1> QED
  BY <1>1, <1>2, <1>3 DEF Send

\* A push is given to Send ...
LEMMA PublishStep ==
  ASSUME SendOK, PushInv, NEW p \in Packet, mqtt_send_publish(p), UNCHANGED deviceVars
  PROVE SendOK' /\ PushInv'
<1> DEFINE m == [cmd |-> "PUBLISH", nr |-> p.nr, len |-> p.len + Appid, cut |-> FALSE]
<1>1. p.nr \in 1 .. MaxPackets /\ p.len \in Nat
  BY PacketNumbers
<1>2. m \in Message /\ m.cmd = "PUBLISH" /\ m.nr = p.nr /\ m.len = p.len + Appid /\ ~ m.cut
  BY <1>1 DEF Message
<1>3. Send(m) /\ published' = published \cup {p} /\ dropped' = dropped
  BY DEF mqtt_send_publish
<1>4. inStep' = inStep /\ got' = got
  BY DEF deviceVars
<1> HIDE DEF m
<1>5. /\ fMsgList' \in Seq(Message) /\ down' \in Seq(Message) /\ blocks' \in 0 .. MaxBlocks
      /\ blocks <= blocks'
      /\ fMsgList' # fMsgList => blocks' > 0
  BY <1>2, <1>3, SendAdds
<1>6. PICK x \in Message :
        /\ x.cmd = m.cmd /\ x.nr = m.nr /\ x.len = m.len
        /\ x.cut => m.cut \/ blocks' > 0
        /\ InTransit' = InTransit \cup {x}
  BY <1>2, <1>3, SendAdds
<1>7. blocks \in Nat /\ blocks' \in Nat /\ (blocks > 0 => blocks' > 0)
  BY <1>5 DEF SendOK
<1>8. SendOK'
  BY <1>3, <1>4, <1>5 DEF SendOK
<1>9. \A y \in InTransit' : Genuine(y)' /\ (y.cut => blocks' > 0)
  <2> SUFFICES ASSUME NEW y \in InTransit' PROVE Genuine(y)' /\ (y.cut => blocks' > 0)
    OBVIOUS
  <2>1. CASE y \in InTransit
    BY <1>3, <1>7, <2>1 DEF PushInv, Genuine
  <2>2. CASE y = x
    BY <1>2, <1>3, <1>6, <2>2 DEF Genuine
  <2> QED
    BY <1>6, <2>1, <2>2
<1>10. NumbersOf(InTransit') = NumbersOf(InTransit) \cup {p.nr}
  BY <1>1, <1>2, <1>6 DEF NumbersOf
<1>11. fMsgList' # <<>> => blocks' > 0
  BY <1>5, <1>7 DEF PushInv
<1>12. LongPush => LongPush'
  BY <1>3 DEF LongPush
<1>13. inStep => {q.nr : q \in published'} = got \cup NumbersOf(InTransit') \cup dropped
  BY <1>3, <1>10 DEF PushInv
<1> QED
  BY <1>3, <1>4, <1>7, <1>8, <1>9, <1>11, <1>12, <1>13 DEF PushInv

\* ... or an answer.
LEMMA ReplyStep ==
  ASSUME SendOK, PushInv, NEW cmd \in {"CONNACK", "PINGRESP"}, Reply(cmd), UNCHANGED deviceVars
  PROVE SendOK' /\ PushInv'
<1> DEFINE m == [cmd |-> cmd, nr |-> 0, len |-> 0, cut |-> FALSE]
<1>1. m \in Message /\ m.cmd # "PUBLISH" /\ m.nr = 0 /\ ~ m.cut
  BY DEF Message
<1>2. Send(m) /\ published' = published /\ dropped' = dropped
  BY DEF Reply
<1>3. inStep' = inStep /\ got' = got
  BY DEF deviceVars
<1> HIDE DEF m
<1>4. /\ fMsgList' \in Seq(Message) /\ down' \in Seq(Message) /\ blocks' \in 0 .. MaxBlocks
      /\ blocks <= blocks'
      /\ fMsgList' # fMsgList => blocks' > 0
  BY <1>1, <1>2, SendAdds
<1>5. PICK x \in Message :
        /\ x.cmd = m.cmd /\ x.nr = m.nr /\ x.len = m.len
        /\ x.cut => m.cut \/ blocks' > 0
        /\ InTransit' = InTransit \cup {x}
  BY <1>1, <1>2, SendAdds
<1>6. blocks \in Nat /\ blocks' \in Nat /\ (blocks > 0 => blocks' > 0)
  BY <1>4 DEF SendOK
<1>7. SendOK'
  BY <1>2, <1>3, <1>4 DEF SendOK
<1>8. \A y \in InTransit' : Genuine(y)' /\ (y.cut => blocks' > 0)
  <2> SUFFICES ASSUME NEW y \in InTransit' PROVE Genuine(y)' /\ (y.cut => blocks' > 0)
    OBVIOUS
  <2>1. CASE y \in InTransit
    BY <1>2, <1>6, <2>1 DEF PushInv, Genuine
  <2>2. CASE y = x
    BY <1>1, <1>2, <1>5, <2>2 DEF Genuine
  <2> QED
    BY <1>5, <2>1, <2>2
<1>9. NumbersOf(InTransit') = NumbersOf(InTransit)
  BY <1>1, <1>5 DEF NumbersOf
<1>10. fMsgList' # <<>> => blocks' > 0
  BY <1>4, <1>6 DEF PushInv
<1>11. LongPush' = LongPush
  BY <1>2 DEF LongPush
<1> QED
  BY <1>2, <1>3, <1>6, <1>7, <1>8, <1>9, <1>10, <1>11 DEF PushInv

\* A listed message is removed, or all of them.
LEMMA DropsStep ==
  ASSUME SendOK, PushInv, fMsgList' \in Seq(Message), NEW gone \in SUBSET Message,
         ToSet(fMsgList) = gone \cup ToSet(fMsgList'), fMsgList' # <<>> => fMsgList # <<>>,
         gone # {} => fMsgList # <<>>,
         dropped' = dropped \cup NumbersOf(gone),
         UNCHANGED <<down, blocks, published>>, UNCHANGED deviceVars
  PROVE SendOK' /\ PushInv'
<1>1. inStep' = inStep /\ got' = got
  BY DEF deviceVars
<1>2. NumbersOf(gone) \subseteq 1 .. MaxPackets
  BY DEF NumbersOf, Message
<1>3. SendOK'
  BY <1>1, <1>2 DEF SendOK
<1>4. InTransit = gone \cup InTransit'
  BY DEF InTransit
<1>5. \A y \in InTransit' : Genuine(y)' /\ (y.cut => blocks > 0)
  BY <1>4 DEF PushInv, Genuine
<1>6. NumbersOf(InTransit) = NumbersOf(gone) \cup NumbersOf(InTransit')
  BY <1>4 DEF NumbersOf
<1>7. dropped' # {} => blocks > 0
  <2>1. NumbersOf(gone) # {} => gone # {}
    BY DEF NumbersOf
  <2> QED
    BY <2>1 DEF PushInv
<1>8. LongPush' = LongPush
  BY DEF LongPush
<1>9. inStep => {p.nr : p \in published} = got \cup NumbersOf(InTransit') \cup dropped'
  BY <1>6 DEF PushInv
<1> QED
  BY <1>1, <1>3, <1>5, <1>7, <1>8, <1>9 DEF PushInv

\* The remaining length of a short PUBLISH fits in its byte.
LEMMA ShortIsReadable ==
  ASSUME NEW m \in Message, ~ m.cut, m.len <= 125
  PROVE Readable(m)
<1>1. m.len \in Nat /\ m.len + 2 \in 0 .. 127
  BY DEF Message
<1>2. (m.len + 2) % 256 = m.len + 2
  BY <1>1
<1>3. FramedLength(m) = 2 + (m.len + 2)
  BY <1>1, <1>2 DEF FramedLength, LengthByte
<1> QED
  BY <1>1, <1>3 DEF Readable

LEMMA DeviceTakesStep == SendOK /\ PushInv /\ DeviceTakes => SendOK' /\ PushInv'
<1> SUFFICES ASSUME SendOK, PushInv, DeviceTakes PROVE SendOK' /\ PushInv'
  OBVIOUS
<1> DEFINE m == Head(down)
<1>1. /\ down # <<>> /\ down' = Tail(down)
      /\ inStep' = (inStep /\ Readable(m))
      /\ got' = IF inStep' /\ m.cmd = "PUBLISH" THEN got \cup {m.nr} ELSE got
      /\ UNCHANGED <<fMsgList, blocks, published, dropped>>
  BY DEF DeviceTakes
<1>2. m \in Message /\ down' \in Seq(Message) /\ ToSet(down) = {m} \cup ToSet(down')
  BY <1>1, ToSetTail DEF SendOK
<1> HIDE DEF m
<1>3. m \in InTransit /\ InTransit = {m} \cup InTransit'
  BY <1>1, <1>2 DEF InTransit
<1>4. Genuine(m) /\ (m.cut => blocks > 0)
  BY <1>3 DEF PushInv
<1>5. \A y \in InTransit' : Genuine(y)' /\ (y.cut => blocks > 0)
  BY <1>1, <1>3 DEF PushInv, Genuine
<1>6. m.nr \in 0 .. MaxPackets /\ m.len \in Nat
  BY <1>2 DEF Message
<1>7. m.cmd = "PUBLISH" => m.nr \in 1 .. MaxPackets
  BY <1>4 DEF Genuine, SendOK, Packet
<1>8. m.cmd # "PUBLISH" => m.nr = 0
  BY <1>4 DEF Genuine
<1>9. SendOK'
  BY <1>1, <1>2, <1>7 DEF SendOK
<1>10. LongPush' = LongPush
  BY <1>1 DEF LongPush
<1>11. ~ Readable(m) => blocks > 0 \/ LongPush
  <2> SUFFICES ASSUME ~ Readable(m), ~ blocks > 0 PROVE LongPush
    OBVIOUS
  <2>1. ~ m.cut
    BY <1>4
  <2>2. m.len > 125 /\ m.cmd = "PUBLISH"
    BY <1>2, <1>6, <2>1, ShortIsReadable DEF Readable
  <2> QED
    BY <1>4, <2>2 DEF Genuine, LongPush
<1>12. ~ inStep' => blocks > 0 \/ LongPush
  BY <1>1, <1>11 DEF PushInv
<1>13. NumbersOf(InTransit) = NumbersOf({m}) \cup NumbersOf(InTransit')
  BY <1>3 DEF NumbersOf
<1>14. inStep' => {p.nr : p \in published} = got' \cup NumbersOf(InTransit') \cup dropped
  <2> SUFFICES ASSUME inStep'
               PROVE {p.nr : p \in published} = got' \cup NumbersOf(InTransit') \cup dropped
    OBVIOUS
  <2>1. {p.nr : p \in published} = got \cup NumbersOf(InTransit) \cup dropped
    BY <1>1 DEF PushInv
  <2>2. got' = got \cup NumbersOf({m})
    <3>1. CASE m.cmd = "PUBLISH"
      BY <1>1, <1>7, <3>1 DEF NumbersOf
    <3>2. CASE m.cmd # "PUBLISH"
      BY <1>1, <1>8, <3>2 DEF NumbersOf
    <3> QED
      BY <3>1, <3>2
  <2> QED
    BY <1>13, <2>1, <2>2
<1> QED
  BY <1>1, <1>5, <1>9, <1>10, <1>12, <1>14 DEF PushInv

LEMMA PushFrame ==
  SendOK /\ PushInv /\ UNCHANGED sendVars /\ UNCHANGED deviceVars => SendOK' /\ PushInv'
<1> SUFFICES ASSUME SendOK, PushInv, UNCHANGED sendVars, UNCHANGED deviceVars
             PROVE SendOK' /\ PushInv'
  OBVIOUS
<1>1. UNCHANGED <<fMsgList, down, blocks, published, dropped, inStep, got>>
  BY DEF sendVars, deviceVars
<1>2. InTransit' = InTransit /\ LongPush' = LongPush
  BY <1>1 DEF InTransit, LongPush
<1> QED
  BY <1>1, <1>2 DEF SendOK, PushInv, Genuine

LEMMA PushStep == ProviderInv /\ SendOK /\ PushInv /\ [Next]_vars => SendOK' /\ PushInv'
<1> SUFFICES ASSUME ProviderInv, SendOK, PushInv, [Next]_vars PROVE SendOK' /\ PushInv'
  OBVIOUS
<1>1. CASE ProcessRecvMsg
  <2>1. PICK len : IF nLen >= len + 37 THEN PacketHandle(Head(packets))
                   ELSE UNCHANGED <<handled, sendVars>>
    BY <1>1 DEF ProcessRecvMsg
  <2>2. UNCHANGED deviceVars
    BY <1>1 DEF ProcessRecvMsg
  <2>3. UNCHANGED sendVars \/ mqtt_send_publish(Head(packets))
    BY <2>1 DEF PacketHandle
  <2>4. Head(packets) \in Packet
    <3>1. packets \in Record /\ packets # <<>>
      BY <1>1 DEF ProcessRecvMsg, ProviderInv, ProviderOK, BufferInv, Fill
    <3> QED
      BY <3>1, HeadTailProperties DEF Record
  <2> QED
    BY <2>2, <2>3, <2>4, PushFrame, PublishStep
<1>2. CASE WriteEvent
  <2> DEFINE m == Head(fMsgList)
  <2>1. /\ fMsgList # <<>> /\ fMsgList' = Tail(fMsgList)
        /\ dropped' = dropped \cup PushesIn(<<m>>)
        /\ UNCHANGED <<down, blocks, published>> /\ UNCHANGED deviceVars
    BY <1>2 DEF WriteEvent
  <2>2. /\ m \in Message /\ fMsgList' \in Seq(Message)
        /\ ToSet(fMsgList) = {m} \cup ToSet(fMsgList')
    BY <2>1, ToSetTail DEF SendOK
  <2>3. PushesIn(<<m>>) = NumbersOf({m})
    <3>1. ToSet(<<m>>) = {m}
      BY DEF ToSet
    <3> QED
      BY <3>1 DEF PushesIn, NumbersOf
  <2>4. {m} \in SUBSET Message /\ dropped' = dropped \cup NumbersOf({m})
    BY <2>1, <2>2, <2>3
  <2> HIDE DEF m
  <2> QED
    BY <2>1, <2>2, <2>4, DropsStep
<1>3. CASE SessionEnds
  <2>1. /\ fMsgList' = <<>> /\ dropped' = dropped \cup PushesIn(fMsgList)
        /\ UNCHANGED <<down, blocks, published>> /\ UNCHANGED deviceVars
    BY <1>3 DEF SessionEnds
  <2>2. PushesIn(fMsgList) = NumbersOf(ToSet(fMsgList))
    BY DEF PushesIn, NumbersOf
  <2>3. ToSet(fMsgList) \in SUBSET Message
    BY LenProperties, ElementOfSeq DEF SendOK, ToSet
  <2>4. fMsgList' \in Seq(Message) /\ ToSet(fMsgList') = {}
    BY <2>1, EmptySeq, ToSetEmpty
  <2>5. ToSet(fMsgList) # {} => fMsgList # <<>>
    BY ToSetEmpty
  <2> QED
    BY <2>1, <2>2, <2>3, <2>4, <2>5, DropsStep
<1>4. CASE DeviceTakes
  BY <1>4, DeviceTakesStep
<1>5. CASE mqtt_handle_connect \/ ConnectRefused
  <2>1. Reply("CONNACK") /\ UNCHANGED deviceVars
    BY <1>5 DEF mqtt_handle_connect, ConnectRefused, Concludes
  <2> QED
    BY <2>1, ReplyStep
<1>6. CASE mqtt_handle_pingreq
  <2>1. Reply("PINGRESP") /\ UNCHANGED deviceVars
    BY <1>6 DEF mqtt_handle_pingreq, Concludes
  <2> QED
    BY <2>1, ReplyStep
<1>7. CASE \/ ProviderSends \/ ReadRequest \/ ParamError \/ EndOfBuffer \/ CleanupRequest
           \/ DeviceBytesArrive \/ BufferOverfilled \/ mqtt_handle_disconnect
           \/ ProtocolError \/ DeviceBytesForgotten
           \/ \E cmd \in {"CONNECT", "PINGREQ", "DISCONNECT"} : DeviceSends(cmd)
  <2>1. UNCHANGED sendVars /\ UNCHANGED deviceVars
    BY <1>7 DEF ProviderSends, ReadRequest, ParamError, EndOfBuffer, CleanupRequest,
       DeviceBytesArrive, BufferOverfilled, mqtt_handle_disconnect, ProtocolError,
       DeviceBytesForgotten,
       DeviceSends, Concludes
  <2> QED
    BY <2>1, PushFrame
<1>8. CASE UNCHANGED vars
  BY <1>8, PushFrame DEF vars, sendVars, deviceVars
<1> QED
  BY <1>1, <1>2, <1>3, <1>4, <1>5, <1>6, <1>7, <1>8 DEF Next, SslSvrSession, MqttServer

LEMMA PushInit == Init => SendOK /\ PushInv
<1> SUFFICES ASSUME Init PROVE SendOK /\ PushInv
  OBVIOUS
<1>1. SendOK
  BY EmptySeq DEF Init, SendOK
<1>2. InTransit = {} /\ NumbersOf({}) = {}
  BY ToSetEmpty DEF Init, InTransit, NumbersOf
<1>3. {p.nr : p \in published} = {}
  BY DEF Init
<1> QED
  BY <1>1, <1>2, <1>3 DEF Init, PushInv

LEMMA PushAlways == Spec => [](SendOK /\ PushInv)
  BY PushInit, PushStep, ProviderAlways, PTL DEF Spec

\* Every PUBLISH reaches the device while it is in step, but for those that met a
\* full socket; a long payload or a partial write is what gets it out of step
\* (MqttServer::mqtt_send_publish, Run).
THEOREM PushesReachDevice == Spec => []PushesArrive
<1>1. SendOK /\ PushInv => PushesArrive
  <2> SUFFICES ASSUME SendOK, PushInv PROVE PushesArrive
    OBVIOUS
  <2>1. PushesIn(down \o fMsgList) = NumbersOf(InTransit)
    BY ToSetConcat DEF PushesIn, NumbersOf, InTransit, SendOK
  <2> QED
    BY <2>1 DEF PushInv, PushesArrive, LongPush
<1> QED
  BY <1>1, PushAlways, PTL

-----------------------------------------------------------------------------
(* The device's commands.                                                  *)

CommandOK ==
  /\ commanded \in 0 .. MaxCommands
  /\ farewell \in BOOLEAN
  /\ up \in Seq(Half)
  /\ connectStatus \in {"new", "connected", "disconnecting", "ended"}
  /\ buffer \in Seq(Half)
  /\ cleaning \in BOOLEAN
  /\ closing \in BOOLEAN
  /\ obeyed \in Seq(1 .. MaxCommands)
  /\ split \in BOOLEAN
  /\ flooded \subseteq 1 .. MaxCommands

Precedes(a, b) == a.nr < b.nr \/ (a.nr = b.nr /\ a.part = 1 /\ b.part = 2)

Ordered(s) == \A i, j \in 1 .. Len(s) : i < j => Precedes(s[i], s[j])

\* Every command that begins in s ends in s, and the other way round.
Whole(s) ==
  /\ \A i \in 1 .. Len(s) :
       s[i].part = 1 => i + 1 <= Len(s) /\ s[i + 1].part = 2 /\ s[i + 1].nr = s[i].nr
  /\ \A i \in 1 .. Len(s) : s[i].part = 2 => i > 1 /\ s[i - 1].part = 1

Waiting == ToSet(buffer) \cup ToSet(up)

\* What CleanupRequest is about to forget does not count.
Unread == IF cleaning THEN ToSet(up) ELSE Waiting

CommandInv ==
  /\ Ordered(buffer) /\ Ordered(up)
  /\ \A a \in ToSet(buffer), b \in ToSet(up) : Precedes(a, b)
  /\ \A b \in Waiting : b.nr <= commanded /\ (b.cmd = "CONNECT" <=> b.nr = 1)
  /\ \A x \in ToSet(obeyed) : x <= commanded
  /\ \A x \in ToSet(obeyed), b \in Unread : x <= b.nr /\ (x = b.nr => b.part = 2)
  /\ Increasing(obeyed)
  /\ connectStatus = "new" => obeyed = <<>>
  /\ connectStatus = "ended" => buffer = <<>> /\ ~ cleaning

\* Unless a read was split, an answer met a full socket or a full buffer took the
\* CONNECT, the buffers hold whole commands, and only full buffers lose any.
IntactInv ==
  ~ split /\ blocks = 0 /\ 1 \notin flooded =>
    /\ Whole(buffer) /\ Whole(up) /\ ~ cleaning
    /\ \A n \in 1 .. commanded :
         \/ n \in ToSet(obeyed) \cup flooded
         \/ \E b \in Waiting : b.nr = n
         \/ connectStatus = "ended"

LEMMA HalfSeq ==
  ASSUME NEW s \in Seq(Half)
  PROVE /\ Len(s) \in Nat /\ DOMAIN s = 1 .. Len(s)
        /\ \A i \in 1 .. Len(s) : s[i] \in Half /\ s[i] \in ToSet(s)
        /\ \A a \in ToSet(s) : \E i \in 1 .. Len(s) : a = s[i]
        /\ ToSet(s) \subseteq Half
        /\ s # <<>> => Len(s) > 0 /\ Head(s) = s[1] /\ s[1] \in ToSet(s)
        /\ s = <<>> => ToSet(s) = {}
<1>1. /\ Len(s) \in Nat /\ DOMAIN s = 1 .. Len(s)
      /\ \A i \in 1 .. Len(s) : s[i] \in Half
  BY LenProperties, ElementOfSeq
<1>2. s # <<>> => Len(s) \in Nat \ {0}
  BY EmptySeq
<1>3. s # <<>> => Len(s) > 0 /\ Head(s) = s[1] /\ 1 \in 1 .. Len(s)
  BY <1>2
<1> QED
  BY <1>1, <1>3, ToSetEmpty DEF ToSet

LEMMA HalfNumbers ==
  ASSUME NEW h \in Half
  PROVE h.nr \in 1 .. MaxCommands /\ h.nr \in Nat /\ h.part \in 1 .. 2
  BY DEF Half

\* A stream is cut in two.
LEMMA Pieces ==
  ASSUME NEW s \in Seq(Half), Ordered(s), NEW n \in 0 .. Len(s)
  PROVE LET p == SubSeq(s, 1, n)
            q == Rest(s, n)
        IN /\ p \in Seq(Half) /\ q \in Seq(Half)
           /\ Len(p) = n /\ Len(q) = Len(s) - n
           /\ \A i \in 1 .. Len(p) : i \in 1 .. Len(s) /\ p[i] = s[i]
           /\ \A i \in 1 .. Len(q) : n + i \in 1 .. Len(s) /\ q[i] = s[n + i]
           /\ Ordered(p) /\ Ordered(q)
           /\ \A a \in ToSet(p), b \in ToSet(q) : Precedes(a, b)
           /\ ToSet(s) = ToSet(p) \cup ToSet(q)
<1> DEFINE p == SubSeq(s, 1, n)
           q == Rest(s, n)
           l == Len(s)
<1>1. l \in Nat /\ n \in 0 .. l /\ \A i \in 1 .. l : s[i] \in Half
  BY HalfSeq
<1>2. /\ p \in Seq(Half) /\ Len(p) = n
      /\ \A i \in 1 .. Len(p) : i \in 1 .. l /\ p[i] = s[i]
  <2>1. \A i \in 1 .. n : s[i] \in Half
    BY <1>1
  <2>2. /\ p \in Seq(Half) /\ Len(p) = IF 1 <= n THEN n - 1 + 1 ELSE 0
        /\ \A i \in 1 .. n - 1 + 1 : p[i] = s[1 + i - 1]
    BY <1>1, <2>1, SubSeqProperties
  <2> HIDE DEF p, l
  <2>3. Len(p) = n
    BY <1>1, <2>2
  <2>4. ASSUME NEW i \in 1 .. Len(p) PROVE i \in 1 .. l /\ p[i] = s[i]
    <3>1. i \in 1 .. n - 1 + 1 /\ 1 + i - 1 = i /\ i \in 1 .. l
      BY <1>1, <2>3
    <3> QED
      BY <2>2, <3>1
  <2> QED
    BY <2>2, <2>3, <2>4
<1>3. /\ q \in Seq(Half) /\ Len(q) = l - n
      /\ \A i \in 1 .. Len(q) : n + i \in 1 .. l /\ q[i] = s[n + i]
  <2>1. \A i \in n + 1 .. l : s[i] \in Half
    BY <1>1
  <2>2. /\ q \in Seq(Half) /\ Len(q) = IF n + 1 <= l THEN l - (n + 1) + 1 ELSE 0
        /\ \A i \in 1 .. l - (n + 1) + 1 : q[i] = s[(n + 1) + i - 1]
    BY <1>1, <2>1, SubSeqProperties DEF Rest
  <2> HIDE DEF q, l
  <2>3. Len(q) = l - n
    BY <1>1, <2>2
  <2>4. ASSUME NEW i \in 1 .. Len(q) PROVE n + i \in 1 .. l /\ q[i] = s[n + i]
    <3>1. i \in 1 .. l - (n + 1) + 1 /\ (n + 1) + i - 1 = n + i /\ n + i \in 1 .. l
      BY <1>1, <2>3
    <3> QED
      BY <2>2, <3>1
  <2> QED
    BY <2>2, <2>3, <2>4
<1> HIDE DEF p, q, l
<1>4. ASSUME NEW i \in 1 .. l, NEW j \in 1 .. l, i < j PROVE Precedes(s[i], s[j])
  BY <1>4 DEF Ordered, l
<1>5. Ordered(p)
  BY <1>2, <1>4 DEF Ordered
<1>6. Ordered(q)
  <2> SUFFICES ASSUME NEW i \in 1 .. Len(q), NEW j \in 1 .. Len(q), i < j
               PROVE Precedes(q[i], q[j])
    BY DEF Ordered
  <2>1. n + i < n + j
    BY <1>1, <1>3
  <2> QED
    BY <1>3, <1>4, <2>1
<1>7. ASSUME NEW a \in ToSet(p), NEW b \in ToSet(q) PROVE Precedes(a, b)
  <2>1. PICK i \in 1 .. Len(p) : a = p[i]
    BY <1>2, HalfSeq
  <2>2. PICK j \in 1 .. Len(q) : b = q[j]
    BY <1>3, HalfSeq
  <2>3. i < n + j
    BY <1>1, <1>2, <1>3
  <2> QED
    BY <1>2, <1>3, <1>4, <2>1, <2>2, <2>3
<1>8. ToSet(s) = ToSet(p) \cup ToSet(q)
  <2>1. ASSUME NEW a \in ToSet(s) PROVE a \in ToSet(p) \cup ToSet(q)
    <3>1. PICK i \in 1 .. l : a = s[i]
      BY HalfSeq DEF l
    <3>2. CASE i <= n
      <4>1. i \in 1 .. Len(p)
        BY <1>1, <1>2, <3>2
      <4> QED
        BY <1>2, <3>1, <4>1, HalfSeq
    <3>3. CASE ~ i <= n
      <4>1. i - n \in 1 .. Len(q) /\ n + (i - n) = i
        BY <1>1, <1>3, <3>3
      <4>2. q[i - n] = a
        BY <1>3, <3>1, <4>1
      <4> QED
        BY <1>3, <4>1, <4>2, HalfSeq
    <3> QED
      BY <3>2, <3>3
  <2>2. ASSUME NEW a \in ToSet(p) PROVE a \in ToSet(s)
    <3>1. PICK i \in 1 .. Len(p) : a = p[i]
      BY <1>2, HalfSeq
    <3> QED
      BY <1>2, <3>1, HalfSeq DEF l
  <2>3. ASSUME NEW a \in ToSet(q) PROVE a \in ToSet(s)
    <3>1. PICK i \in 1 .. Len(q) : a = q[i]
      BY <1>3, HalfSeq
    <3> QED
      BY <1>3, <3>1, HalfSeq DEF l
  <2> QED
    BY <2>1, <2>2, <2>3
<1> QED
  BY <1>2, <1>3, <1>5, <1>6, <1>7, <1>8 DEF p, q, l

\* A cut between two commands leaves whole commands on both sides.
LEMMA WholePieces ==
  ASSUME NEW s \in Seq(Half), Ordered(s), Whole(s), NEW n \in 0 .. Len(s),
         n < Len(s) => s[n + 1].part = 1
  PROVE Whole(SubSeq(s, 1, n)) /\ Whole(Rest(s, n))
<1> DEFINE p == SubSeq(s, 1, n)
           q == Rest(s, n)
           l == Len(s)
<1>1. /\ Len(p) = n /\ Len(q) = l - n
      /\ \A i \in 1 .. Len(p) : i \in 1 .. l /\ p[i] = s[i]
      /\ \A i \in 1 .. Len(q) : n + i \in 1 .. l /\ q[i] = s[n + i]
  BY Pieces
<1>2. /\ l \in Nat /\ n \in 0 .. l
      /\ n < l => s[n + 1].part = 1
  BY HalfSeq
<1>3. \A i \in 1 .. l :
        /\ s[i].part = 1 => i + 1 <= l /\ s[i + 1].part = 2 /\ s[i + 1].nr = s[i].nr
        /\ s[i].part = 2 => i > 1 /\ s[i - 1].part = 1
  BY DEF Whole
<1> HIDE DEF p, q, l
<1>4. Whole(p)
  <2>1. ASSUME NEW i \in 1 .. Len(p), p[i].part = 1
        PROVE i + 1 <= Len(p) /\ p[i + 1].part = 2 /\ p[i + 1].nr = p[i].nr
    <3>1. /\ i \in 1 .. l /\ p[i] = s[i]
          /\ i + 1 <= l /\ s[i + 1].part = 2 /\ s[i + 1].nr = s[i].nr
      BY <1>1, <1>3, <2>1
    <3>2. i # n
      BY <1>2, <3>1
    <3>3. i + 1 \in 1 .. Len(p)
      BY <1>1, <1>2, <3>2
    <3> QED
      BY <1>1, <3>1, <3>3
  <2>2. ASSUME NEW i \in 1 .. Len(p), p[i].part = 2 PROVE i > 1 /\ p[i - 1].part = 1
    <3>1. i \in 1 .. l /\ p[i] = s[i] /\ i > 1 /\ s[i - 1].part = 1
      BY <1>1, <1>3, <2>2
    <3>2. i - 1 \in 1 .. Len(p)
      BY <1>1, <1>2, <3>1
    <3> QED
      BY <1>1, <3>1, <3>2
  <2> QED
    BY <2>1, <2>2 DEF Whole
<1>5. Whole(q)
  <2>1. ASSUME NEW i \in 1 .. Len(q), q[i].part = 1
        PROVE i + 1 <= Len(q) /\ q[i + 1].part = 2 /\ q[i + 1].nr = q[i].nr
    <3>1. /\ n + i \in 1 .. l /\ q[i] = s[n + i]
          /\ (n + i) + 1 <= l /\ s[(n + i) + 1].part = 2 /\ s[(n + i) + 1].nr = s[n + i].nr
      BY <1>1, <1>3, <2>1
    <3>2. i + 1 \in 1 .. Len(q) /\ n + (i + 1) = (n + i) + 1
      <4>1. (n + i) + 1 <= l /\ Len(q) = l - n /\ l \in Nat /\ n \in 0 .. l /\ i \in 1 .. l - n
        BY <1>1, <1>2, <3>1
      <4>2. i + 1 \in 1 .. l - n /\ n + (i + 1) = (n + i) + 1
        BY ONLY <4>1
      <4> QED
        BY <4>1, <4>2
    <3> QED
      BY <1>1, <3>1, <3>2
  <2>2. ASSUME NEW i \in 1 .. Len(q), q[i].part = 2 PROVE i > 1 /\ q[i - 1].part = 1
    <3>1. n + i \in 1 .. l /\ q[i] = s[n + i] /\ s[(n + i) - 1].part = 1
      BY <1>1, <1>3, <2>2
    <3>2. i # 1
      <4> SUFFICES ASSUME i = 1 PROVE FALSE
        OBVIOUS
      <4>1. s[n + 1].part = 2 /\ n + 1 \in 1 .. l
        BY <2>2, <3>1
      <4>2. n < l
        BY ONLY <1>2, <4>1
      <4> QED
        BY <1>2, <4>1, <4>2
    <3>3. i - 1 \in 1 .. Len(q) /\ n + (i - 1) = (n + i) - 1
      <4> DEFINE m == Len(q)
      <4>1. m \in Nat /\ i \in 1 .. m /\ n \in Nat
        BY <1>1, <1>2
      <4> HIDE DEF m
      <4>2. i - 1 \in 1 .. m /\ n + (i - 1) = (n + i) - 1
        BY ONLY <3>2, <4>1
      <4> QED
        BY <4>2 DEF m
    <3>4. q[i - 1] = s[(n + i) - 1]
      BY <1>1, <3>3
    <3>5. i > 1
      <4>1. Len(q) \in Nat /\ i \in 1 .. Len(q)
        BY <1>1, <1>2
      <4> QED
        BY ONLY <3>2, <4>1
    <3> QED
      BY <3>1, <3>4, <3>5
  <2> QED
    BY <2>1, <2>2 DEF Whole
<1> QED
  BY <1>4, <1>5 DEF p, q

\* The first command of a stream of whole commands is all there, and behind it
\* come whole commands.
LEMMA WholeFront ==
  ASSUME NEW s \in Seq(Half), Ordered(s), Whole(s), s # <<>>
  PROVE /\ s[1].part = 1 /\ Len(s) >= 2 /\ s[2].nr = s[1].nr
        /\ Whole(Rest(s, 2))
<1>1. Len(s) \in Nat /\ Len(s) > 0 /\ s[1] \in Half
  BY HalfSeq
<1>2. 1 \in 1 .. Len(s)
  BY <1>1
<1>3. s[1].part = 1
  BY <1>1, <1>2, HalfNumbers DEF Whole
<1>4. 1 + 1 <= Len(s) /\ s[1 + 1].part = 2 /\ s[1 + 1].nr = s[1].nr
  BY <1>2, <1>3 DEF Whole
<1>5. Len(s) >= 2 /\ s[2].part = 2 /\ s[2].nr = s[1].nr /\ 2 \in 0 .. Len(s)
  BY <1>1, <1>4
<1>6. 2 < Len(s) => s[2 + 1].part = 1
  <2> SUFFICES ASSUME 2 < Len(s) PROVE s[3].part = 1
    OBVIOUS
  <2>1. 3 \in 1 .. Len(s) /\ 3 - 1 = 2
    BY <1>1
  <2>2. s[3].part = 2 => s[3 - 1].part = 1
    BY <2>1 DEF Whole
  <2>3. s[3].part \in 1 .. 2
    BY <2>1, HalfSeq, HalfNumbers
  <2> QED
    BY <1>5, <2>1, <2>2, <2>3
<1> QED
  BY <1>3, <1>5, <1>6, WholePieces

\* A command behind all others.
LEMMA OneMore ==
  ASSUME NEW s \in Seq(Half), Ordered(s), NEW n \in 1 .. MaxCommands,
         \A a \in ToSet(s) : a.nr < n, NEW cmd \in {"CONNECT", "PINGREQ", "DISCONNECT"}
  PROVE LET h == Halves(n, cmd)
            t == s \o h
        IN /\ t \in Seq(Half) /\ Ordered(t)
           /\ ToSet(t) = ToSet(s) \cup ToSet(h)
           /\ ToSet(h) \subseteq Half
           /\ \A a \in ToSet(h) : a.nr = n /\ a.cmd = cmd
           /\ \E a \in ToSet(h) : a.nr = n
           /\ Whole(s) => Whole(t)
<1> DEFINE h == Halves(n, cmd)
           t == s \o h
           l == Len(s)
<1>1. /\ h \in Seq(Half) /\ Len(h) = 2
      /\ h[1] = [nr |-> n, cmd |-> cmd, part |-> 1]
      /\ h[2] = [nr |-> n, cmd |-> cmd, part |-> 2]
  <2>1. \A i \in 1 .. 2 : [nr |-> n, cmd |-> cmd, part |-> i] \in Half
    BY DEF Half
  <2>2. h \in [1 .. 2 -> Half]
    BY <2>1 DEF Halves
  <2> HIDE DEF h
  <2>3. h \in Seq(Half)
    BY <2>2, SeqDef
  <2>4. Len(h) = 2
    BY <2>2, <2>3, LenProperties
  <2> QED
    BY <2>3, <2>4 DEF h, Halves
<1>2. \A a \in ToSet(h) : a.nr = n /\ a.cmd = cmd
  <2> SUFFICES ASSUME NEW a \in ToSet(h) PROVE a.nr = n /\ a.cmd = cmd
    OBVIOUS
  <2>1. PICK i \in 1 .. Len(h) : a = h[i]
    BY <1>1, HalfSeq
  <2>2. i = 1 \/ i = 2
    BY <1>1
  <2> QED
    BY <1>1, <2>1, <2>2
<1>3. /\ l \in Nat /\ t \in Seq(Half) /\ Len(t) = l + 2
      /\ \A i \in 1 .. l + 2 : t[i] = IF i <= l THEN s[i] ELSE h[i - l]
      /\ ToSet(t) = ToSet(s) \cup ToSet(h)
  <2> HIDE DEF h
  <2>1. l \in Nat /\ h \in Seq(Half) /\ Len(h) = 2
    BY <1>1, HalfSeq
  <2>2. /\ t \in Seq(Half) /\ Len(t) = l + Len(h)
        /\ \A i \in 1 .. l + Len(h) : t[i] = IF i <= l THEN s[i] ELSE h[i - l]
    BY <2>1, ConcatProperties
  <2>3. ToSet(t) = ToSet(s) \cup ToSet(h)
    BY <2>1, ToSetConcat
  <2> QED
    BY <2>1, <2>2, <2>3
<1> HIDE DEF h, t
<1>4. \E a \in ToSet(h) : a.nr = n
  <2>0. 1 \in 1 .. Len(h) /\ h \in Seq(Half)
    BY <1>1
  <2>1. h[1] \in ToSet(h)
    BY <2>0, HalfSeq
  <2> QED
    BY <1>2, <2>1
<1>5. t[l + 1] = h[1] /\ t[l + 2] = h[2]
  <2> HIDE DEF l
  <2>1. /\ l + 1 \in 1 .. l + 2 /\ ~ l + 1 <= l /\ (l + 1) - l = 1
        /\ l + 2 \in 1 .. l + 2 /\ ~ l + 2 <= l /\ (l + 2) - l = 2
    BY <1>3
  <2> QED
    BY <1>3, <2>1
<1>6. \A i \in 1 .. l : i \in 1 .. l + 2 /\ t[i] = s[i] /\ s[i].nr < n
  BY <1>3, HalfSeq
<1>7. ASSUME NEW i \in 1 .. Len(t) PROVE i \in 1 .. l \/ i = l + 1 \/ i = l + 2
  <2>1. i \in 1 .. l + 2 /\ l \in Nat
    BY <1>3
  <2> HIDE DEF l
  <2> QED
    BY ONLY <2>1
<1>8. Ordered(t)
  <2> SUFFICES ASSUME NEW i \in 1 .. Len(t), NEW j \in 1 .. Len(t), i < j
               PROVE Precedes(t[i], t[j])
    BY DEF Ordered
  <2>1. CASE j \in 1 .. l
    <3>1. i \in 1 .. l
      BY <1>3, <1>7, <2>1
    <3> QED
      BY <1>6, <2>1, <3>1 DEF Ordered
  <2>2. CASE j = l + 1
    <3>1. i \in 1 .. l
      BY <1>3, <1>7, <2>2
    <3>2. t[j].nr = n
      BY <1>1, <1>5, <2>2
    <3>3. t[i].nr < n
      BY <1>6, <3>1
    <3> QED
      BY <3>2, <3>3 DEF Precedes
  <2>3. CASE j = l + 2
    <3>1. i \in 1 .. l \/ i = l + 1
      BY <1>3, <1>7, <2>3
    <3>2. t[j].nr = n /\ t[j].part = 2
      BY <1>1, <1>5, <2>3
    <3>3. CASE i \in 1 .. l
      BY <1>6, <3>2, <3>3 DEF Precedes
    <3>4. CASE i = l + 1
      <4>1. t[i].nr = n /\ t[i].part = 1
        BY <1>1, <1>5, <3>4
      <4> QED
        BY <3>2, <4>1 DEF Precedes
    <3> QED
      BY <3>1, <3>3, <3>4
  <2> QED
    BY <1>7, <2>1, <2>2, <2>3
<1>9. Whole(s) => Whole(t)
  <2> SUFFICES ASSUME Whole(s) PROVE Whole(t)
    OBVIOUS
  <2>1. ASSUME NEW i \in 1 .. Len(t), t[i].part = 1
        PROVE i + 1 <= Len(t) /\ t[i + 1].part = 2 /\ t[i + 1].nr = t[i].nr
    <3>1. CASE i \in 1 .. l
      <4>1. i + 1 <= l /\ s[i + 1].part = 2 /\ s[i + 1].nr = s[i].nr
        BY <1>6, <2>1, <3>1 DEF Whole
      <4>2. i + 1 \in 1 .. l /\ i + 1 <= Len(t)
        BY <1>3, <3>1, <4>1
      <4> QED
        BY <1>6, <3>1, <4>1, <4>2
    <3>2. CASE i = l + 1
      <4>1. i + 1 = l + 2 /\ i + 1 <= Len(t)
        BY <1>3, <3>2
      <4> QED
        BY <1>1, <1>5, <3>2, <4>1
    <3>3. CASE i = l + 2
      BY <1>1, <1>5, <2>1, <3>3
    <3> QED
      BY <1>7, <3>1, <3>2, <3>3
  <2>2. ASSUME NEW i \in 1 .. Len(t), t[i].part = 2 PROVE i > 1 /\ t[i - 1].part = 1
    <3>1. CASE i \in 1 .. l
      <4>1. i > 1 /\ s[i - 1].part = 1
        BY <1>6, <2>2, <3>1 DEF Whole
      <4>2. i - 1 \in 1 .. l
        BY <1>3, <3>1, <4>1
      <4> QED
        BY <1>6, <4>1, <4>2
    <3>2. CASE i = l + 1
      BY <1>1, <1>5, <2>2, <3>2
    <3>3. CASE i = l + 2
      <4>1. i - 1 = l + 1 /\ i > 1
        BY <1>3, <3>3
      <4> QED
        BY <1>1, <1>5, <4>1
    <3> QED
      BY <1>7, <3>1, <3>2, <3>3
  <2> QED
    BY <2>1, <2>2 DEF Whole
<1> QED
  BY <1>1, <1>2, <1>3, <1>4, <1>8, <1>9, HalfSeq DEF h, t

\* A command is taken from the front, with as much of it as there is.
LEMMA Consumes ==
  ASSUME NEW s \in Seq(Half), Ordered(s), s # <<>>
  PROVE LET q == Rest(s, 2)
        IN /\ q \in Seq(Half) /\ Ordered(q) /\ ToSet(q) \subseteq ToSet(s)
           /\ \A b \in ToSet(q) : Precedes(s[1], b)
           /\ Whole(s) => Whole(q) /\ \A b \in ToSet(s) : b \in ToSet(q) \/ b.nr = s[1].nr
<1> DEFINE q == Rest(s, 2)
           p == SubSeq(s, 1, 2)
<1>1. Len(s) \in Nat /\ Len(s) > 0
  BY HalfSeq
<1>2. CASE Len(s) >= 2
  <2>1. 2 \in 0 .. Len(s)
    BY <1>1, <1>2
  <2>2. /\ p \in Seq(Half) /\ q \in Seq(Half) /\ Len(p) = 2
        /\ \A i \in 1 .. Len(p) : i \in 1 .. Len(s) /\ p[i] = s[i]
        /\ Ordered(q)
        /\ \A a \in ToSet(p), b \in ToSet(q) : Precedes(a, b)
        /\ ToSet(s) = ToSet(p) \cup ToSet(q)
    <3> DEFINE n == 2
    <3>1. n \in 0 .. Len(s) /\ p = SubSeq(s, 1, n) /\ q = Rest(s, n)
      BY <2>1
    <3> HIDE DEF n, p, q
    <3>2. /\ p \in Seq(Half) /\ q \in Seq(Half) /\ Len(p) = n
          /\ \A i \in 1 .. Len(p) : i \in 1 .. Len(s) /\ p[i] = s[i]
          /\ Ordered(q)
          /\ \A a \in ToSet(p), b \in ToSet(q) : Precedes(a, b)
          /\ ToSet(s) = ToSet(p) \cup ToSet(q)
      BY <3>1, Pieces
    <3> QED
      BY <3>2 DEF n
  <2> HIDE DEF p, q
  <2>3. 1 \in 1 .. Len(p) /\ 2 \in 1 .. Len(p)
    BY <2>2
  <2>4. s[1] \in ToSet(p)
    <3>1. p[1] \in ToSet(p) /\ p[1] = s[1]
      BY <2>2, <2>3, HalfSeq
    <3> QED
      BY <3>1
  <2>5. ASSUME Whole(s)
        PROVE Whole(q) /\ \A b \in ToSet(s) : b \in ToSet(q) \/ b.nr = s[1].nr
    <3>1. Whole(q) /\ s[2].nr = s[1].nr
      BY <2>5, WholeFront DEF q
    <3>2. ASSUME NEW b \in ToSet(p) PROVE b.nr = s[1].nr
      <4>1. PICK i \in 1 .. Len(p) : b = p[i]
        BY <2>2, HalfSeq
      <4>2. i = 1 \/ i = 2
        BY <2>2
      <4> QED
        BY <2>2, <2>3, <3>1, <4>1, <4>2
    <3> QED
      BY <2>2, <3>1, <3>2
  <2> QED
    BY <2>2, <2>4, <2>5 DEF q
<1>3. CASE ~ Len(s) >= 2
  <2>1. 2 + 1 \in Int /\ Len(s) \in Int /\ Len(s) < 2 + 1
    BY <1>1, <1>3
  <2>2. q = <<>>
    BY <2>1, SubSeqEmpty DEF Rest
  <2> HIDE DEF q
  <2>3. q \in Seq(Half) /\ ToSet(q) = {} /\ Ordered(q)
    BY <2>2, EmptySeq, ToSetEmpty DEF Ordered
  <2>4. ~ Whole(s)
    BY <1>3, WholeFront
  <2> QED
    BY <2>3, <2>4 DEF q
<1> QED
  BY <1>2, <1>3

DeviceInv == CommandOK /\ CommandInv /\ IntactInv

\* Other steps leave the commands alone, and sends that meet a full socket are
\* only ever counted.
LEMMA DeviceFrame ==
  ASSUME DeviceInv, UNCHANGED commandVars, blocks \in Nat, blocks' \in Nat, blocks <= blocks'
  PROVE DeviceInv'
<1>1. UNCHANGED <<commanded, farewell, up, connectStatus, buffer, cleaning, closing, obeyed, split,
                 flooded>>
  BY DEF commandVars
<1>2. CommandOK'
  BY <1>1 DEF DeviceInv, CommandOK
<1>3. Waiting' = Waiting /\ Unread' = Unread
  BY <1>1 DEF Waiting, Unread
<1>4. CommandInv'
  BY <1>1, <1>3 DEF DeviceInv, CommandInv
<1>5. IntactInv'
  <2>1. blocks' = 0 => blocks = 0
    OBVIOUS
  <2> QED
    BY <1>1, <1>3, <2>1 DEF DeviceInv, IntactInv
<1> QED
  BY <1>2, <1>4, <1>5 DEF DeviceInv

\* A command that is obeyed comes after all that were obeyed.
LEMMA ObeyStep ==
  ASSUME DeviceInv, blocks \in Nat, blocks' \in Nat, blocks <= blocks',
         ~ cleaning, buffer # <<>>, Head(buffer).part = 1, NEW error \in BOOLEAN,
         obeyed' = Append(obeyed, Head(buffer).nr), cleaning' = error,
         buffer' = IF error THEN buffer ELSE Rest(buffer, 2),
         error => blocks' > 0,
         connectStatus' \in {"connected", "disconnecting"}, closing' \in BOOLEAN,
         UNCHANGED <<commanded, farewell, up, split, flooded>>
  PROVE DeviceInv'
<1> DEFINE h == buffer[1]
           q == Rest(buffer, 2)
<1> USE DEF DeviceInv
<1>1. /\ buffer \in Seq(Half) /\ up \in Seq(Half) /\ Ordered(buffer) /\ Ordered(up)
      /\ obeyed \in Seq(1 .. MaxCommands) /\ commanded \in Nat
  BY DEF CommandOK, CommandInv
<1>2. Head(buffer) = h /\ h \in ToSet(buffer) /\ h \in Half /\ h.part = 1
  BY <1>1, HalfSeq
<1>3. /\ q \in Seq(Half) /\ Ordered(q) /\ ToSet(q) \subseteq ToSet(buffer)
      /\ \A b \in ToSet(q) : Precedes(h, b)
      /\ Whole(buffer) =>
           Whole(q) /\ \A b \in ToSet(buffer) : b \in ToSet(q) \/ b.nr = h.nr
  BY <1>1, Consumes
<1>4. h.nr \in 1 .. MaxCommands /\ h.nr <= commanded
  BY <1>2, HalfNumbers DEF CommandInv, Waiting
<1> HIDE DEF h, q
<1>5. /\ buffer' \in Seq(Half) /\ Ordered(buffer') /\ ToSet(buffer') \subseteq ToSet(buffer)
      /\ ~ error => buffer' = q
  BY <1>1, <1>3 DEF q
<1>6. Waiting' \subseteq Waiting /\ Unread' \subseteq Unread /\ Unread = Waiting
  BY <1>5 DEF Waiting, Unread
<1>7. \A x \in ToSet(obeyed) : x < h.nr
  <2> SUFFICES ASSUME NEW x \in ToSet(obeyed) PROVE x < h.nr
    OBVIOUS
  <2>1. h \in Unread
    BY <1>2, <1>6 DEF Waiting
  <2>2. x <= h.nr /\ x # h.nr
    BY <1>2, <2>1 DEF CommandInv
  <2>3. x \in 1 .. MaxCommands
    BY <1>1, LenProperties, ElementOfSeq DEF ToSet
  <2> QED
    BY <1>4, <2>2, <2>3
<1>8. /\ obeyed' \in Seq(1 .. MaxCommands) /\ Increasing(obeyed')
      /\ ToSet(obeyed') = ToSet(obeyed) \cup {h.nr}
  <2> DEFINE n == h.nr
  <2>1. /\ MaxCommands \in Nat /\ obeyed \in Seq(1 .. MaxCommands) /\ Increasing(obeyed)
        /\ n \in 1 .. MaxCommands /\ Below(obeyed, n)
    BY <1>1, <1>4, <1>7 DEF CommandInv, Below
  <2>2. obeyed' = Append(obeyed, n)
    BY <1>2
  <2> HIDE DEF n
  <2>3. /\ Append(obeyed, n) \in Seq(1 .. MaxCommands) /\ Increasing(Append(obeyed, n))
        /\ ToSet(Append(obeyed, n)) = ToSet(obeyed) \cup {n}
    BY ONLY <2>1, IncreasingAppend
  <2> QED
    BY <2>2, <2>3 DEF n
<1>9. \A b \in Unread' : Precedes(h, b)
  <2> SUFFICES ASSUME NEW b \in Unread' PROVE Precedes(h, b)
    OBVIOUS
  <2>1. CASE b \in ToSet(up)
    BY <1>2, <2>1 DEF CommandInv
  <2>2. CASE b \notin ToSet(up)
    <3>1. ~ error /\ b \in ToSet(buffer')
      BY <2>2 DEF Unread, Waiting
    <3> QED
      BY <1>3, <1>5, <3>1
  <2> QED
    BY <2>1, <2>2
<1>10. CommandOK'
  BY <1>5, <1>8 DEF CommandOK
<1>11. CommandInv'
  <2>1. Ordered(buffer') /\ Ordered(up')
    BY <1>1, <1>5
  <2>2. \A a \in ToSet(buffer'), b \in ToSet(up') : Precedes(a, b)
    BY <1>5 DEF CommandInv
  <2>3. \A b \in Waiting' : b.nr <= commanded' /\ (b.cmd = "CONNECT" <=> b.nr = 1)
    BY <1>6 DEF CommandInv
  <2>4. \A x \in ToSet(obeyed') : x <= commanded'
    BY <1>4, <1>8 DEF CommandInv
  <2>5. ASSUME NEW x \in ToSet(obeyed'), NEW b \in Unread'
        PROVE x <= b.nr /\ (x = b.nr => b.part = 2)
    <3>1. CASE x \in ToSet(obeyed)
      BY <1>6, <3>1 DEF CommandInv
    <3>2. CASE x = h.nr
      <4>1. Precedes(h, b)
        BY <1>9
      <4>2. b \in Half
        <5>1. b \in ToSet(buffer) \/ b \in ToSet(up)
          BY <1>6 DEF Waiting
        <5> QED
          BY <1>1, <5>1, HalfSeq
      <4>3. b.nr \in Nat /\ h.nr \in Nat
        BY <1>2, <4>2, HalfNumbers
      <4> QED
        BY <3>2, <4>1, <4>3 DEF Precedes
    <3> QED
      BY <1>8, <3>1, <3>2
  <2>6. connectStatus' # "new" /\ connectStatus' # "ended"
    OBVIOUS
  <2>7. Increasing(obeyed)'
    BY <1>8 DEF Increasing
  <2> QED
    BY <2>1, <2>2, <2>3, <2>4, <2>5, <2>6, <2>7 DEF CommandInv, Ordered
<1>12. IntactInv'
  <2> SUFFICES ASSUME ~ split', blocks' = 0, 1 \notin flooded' PROVE
        /\ Whole(buffer') /\ Whole(up') /\ ~ cleaning'
        /\ \A n \in 1 .. commanded' :
             n \in ToSet(obeyed') \cup flooded' \/ \E b \in Waiting' : b.nr = n
    BY DEF IntactInv, Whole
  <2>1. ~ split /\ blocks = 0 /\ 1 \notin flooded /\ ~ error
    OBVIOUS
  <2>2. /\ Whole(buffer) /\ Whole(up)
        /\ \A n \in 1 .. commanded :
             n \in ToSet(obeyed) \cup flooded \/ (\E b \in Waiting : b.nr = n)
               \/ connectStatus = "ended"
    BY <2>1 DEF IntactInv
  <2>3. connectStatus # "ended"
    BY DEF CommandInv
  <2>4. Whole(q) /\ buffer' = q /\ \A b \in ToSet(buffer) : b \in ToSet(q) \/ b.nr = h.nr
    BY <1>3, <1>5, <2>1, <2>2
  <2>5. Waiting' = ToSet(q) \cup ToSet(up)
    BY <2>4 DEF Waiting
  <2>6. ASSUME NEW n \in 1 .. commanded
        PROVE n \in ToSet(obeyed') \cup flooded' \/ \E b \in Waiting' : b.nr = n
    <3>1. CASE n \in ToSet(obeyed) \cup flooded
      BY <1>8, <3>1
    <3>2. CASE \E b \in Waiting : b.nr = n
      <4>1. PICK b \in Waiting : b.nr = n
        BY <3>2
      <4>2. b \in ToSet(buffer) \/ b \in ToSet(up)
        BY DEF Waiting
      <4>3. b \in Waiting' \/ b.nr = h.nr
        BY <2>4, <2>5, <4>2
      <4> QED
        BY <1>8, <4>1, <4>3
    <3> QED
      BY <2>2, <2>3, <3>1, <3>2
  <2> QED
    BY <2>1, <2>2, <2>4, <2>6
<1> QED
  BY <1>10, <1>11, <1>12

\* An error keeps what is in the buffer, for CleanupRequest to forget.
LEMMA RefuseStep ==
  ASSUME DeviceInv, ~ cleaning, buffer # <<>>, cleaning' = TRUE,
         split \/ blocks' # 0 \/ 1 \in flooded, closing' \in BOOLEAN,
         UNCHANGED <<commanded, farewell, up, buffer, connectStatus, obeyed, split, flooded>>
  PROVE DeviceInv'
<1> USE DEF DeviceInv
<1>1. CommandOK'
  BY DEF CommandOK
<1>2. Waiting' = Waiting /\ Unread' \subseteq Unread
  BY DEF Waiting, Unread
<1>3. CommandInv'
  BY <1>2 DEF CommandInv
<1>4. IntactInv'
  BY DEF IntactInv
<1> QED
  BY <1>1, <1>3, <1>4

\* What is at the front of whole commands is not refused.
LEMMA FrontIsObeyed ==
  ASSUME DeviceInv, ~ split, blocks = 0, 1 \notin flooded, buffer # <<>>
  PROVE /\ Head(buffer).part = 1 /\ Len(buffer) >= 2
        /\ connectStatus = "new" => Head(buffer).cmd = "CONNECT"
<1> DEFINE h == buffer[1]
<1> USE DEF DeviceInv
<1>1. buffer \in Seq(Half) /\ up \in Seq(Half) /\ Ordered(buffer) /\ commanded \in Nat
  BY DEF CommandOK, CommandInv
<1>2. Head(buffer) = h /\ h \in ToSet(buffer) /\ h \in Half
  BY <1>1, HalfSeq
<1>3. h.part = 1 /\ Len(buffer) >= 2
  BY <1>1, WholeFront DEF IntactInv
<1> HIDE DEF h
<1>4. ASSUME connectStatus = "new" PROVE h.cmd = "CONNECT"
  <2>1. h \in Waiting /\ h.nr <= commanded /\ h.nr \in 1 .. MaxCommands
    BY <1>2, HalfNumbers DEF CommandInv, Waiting
  <2>2. 1 \in 1 .. commanded
    BY <1>1, <2>1
  <2>3. 1 \notin ToSet(obeyed)
    BY <1>4, ToSetEmpty DEF CommandInv
  <2>4. PICK b \in Waiting : b.nr = 1
    BY <1>4, <2>2, <2>3 DEF IntactInv
  <2>5. b = h \/ Precedes(h, b)
    <3>1. CASE b \in ToSet(up)
      BY <1>2, <3>1 DEF CommandInv
    <3>2. CASE b \in ToSet(buffer)
      <4>1. PICK i \in 1 .. Len(buffer) : b = buffer[i]
        BY <1>1, <3>2, HalfSeq
      <4>2. CASE i = 1
        BY <4>1, <4>2 DEF h
      <4>3. CASE i # 1
        <5>1. 1 < i /\ 1 \in 1 .. Len(buffer)
          BY <1>3, <4>3
        <5> QED
          BY <1>1, <4>1, <5>1 DEF Ordered, h
      <4> QED
        BY <4>2, <4>3
    <3> QED
      BY <3>1, <3>2 DEF Waiting
  <2>6. h.nr = 1
    BY <2>1, <2>4, <2>5 DEF Precedes
  <2> QED
    BY <2>1, <2>6 DEF CommandInv
<1> QED
  BY <1>2, <1>3, <1>4

LEMMA DeviceSendsStep ==
  ASSUME DeviceInv, NEW cmd \in {"CONNECT", "PINGREQ", "DISCONNECT"}, DeviceSends(cmd)
  PROVE DeviceInv'
<1> DEFINE n == commanded + 1
           h == Halves(n, cmd)
<1> USE DEF DeviceInv
<1>1. /\ connectStatus # "ended" /\ commanded < MaxCommands
      /\ (cmd = "CONNECT") = (commanded = 0)
      /\ commanded' = commanded + 1 /\ farewell' = (cmd = "DISCONNECT")
      /\ up' = up \o h
      /\ UNCHANGED <<connectStatus, buffer, cleaning, closing, obeyed, split, flooded, blocks>>
  BY DEF DeviceSends, sendVars
<1>2. /\ buffer \in Seq(Half) /\ up \in Seq(Half) /\ Ordered(buffer) /\ Ordered(up)
      /\ commanded \in Nat /\ n \in 1 .. MaxCommands /\ n = commanded + 1
  BY <1>1 DEF CommandOK, CommandInv
<1>3. \A a \in Waiting : a.nr < n /\ a.nr <= n /\ a.nr \in Nat
  <2> SUFFICES ASSUME NEW a \in Waiting PROVE a.nr < n /\ a.nr \in Nat
    BY <1>2
  <2>1. a \in Half
    BY <1>2, HalfSeq DEF Waiting
  <2>2. a.nr <= commanded /\ a.nr \in Nat
    BY <2>1, HalfNumbers DEF CommandInv
  <2> QED
    BY <1>2, <2>2
<1> HIDE DEF n
<1>4. /\ up' \in Seq(Half) /\ Ordered(up')
      /\ ToSet(up') = ToSet(up) \cup ToSet(h)
      /\ ToSet(h) \subseteq Half
      /\ \A a \in ToSet(h) : a.nr = n /\ a.cmd = cmd
      /\ \E a \in ToSet(h) : a.nr = n
      /\ Whole(up) => Whole(up')
  <2>1. \A a \in ToSet(up) : a.nr < n
    BY <1>3 DEF Waiting
  <2>2. up \in Seq(Half) /\ Ordered(up) /\ n \in 1 .. MaxCommands
    BY <1>2
  <2>3. /\ up \o h \in Seq(Half) /\ Ordered(up \o h)
        /\ ToSet(up \o h) = ToSet(up) \cup ToSet(h)
        /\ ToSet(h) \subseteq Half
        /\ \A a \in ToSet(h) : a.nr = n /\ a.cmd = cmd
        /\ \E a \in ToSet(h) : a.nr = n
        /\ Whole(up) => Whole(up \o h)
    BY <2>1, <2>2, OneMore
  <2> HIDE DEF h
  <2> QED
    BY <1>1, <2>3
<1> HIDE DEF h
<1>5. Waiting' = Waiting \cup ToSet(h)
  BY <1>1, <1>4 DEF Waiting
<1>6. CommandOK'
  BY <1>1, <1>2, <1>4 DEF CommandOK, n
<1>7. CommandInv'
  <2>1. Ordered(buffer') /\ Ordered(up')
    BY <1>1, <1>2, <1>4
  <2>2. \A a \in ToSet(buffer'), b \in ToSet(up') : Precedes(a, b)
    <3> SUFFICES ASSUME NEW a \in ToSet(buffer), NEW b \in ToSet(up') PROVE Precedes(a, b)
      BY <1>1
    <3>1. CASE b \in ToSet(up)
      BY <3>1 DEF CommandInv
    <3>2. CASE b \in ToSet(h)
      BY <1>3, <1>4, <3>2 DEF Precedes, Waiting
    <3> QED
      BY <1>4, <3>1, <3>2
  <2>3. ASSUME NEW b \in Waiting'
        PROVE b.nr <= commanded' /\ (b.cmd = "CONNECT" <=> b.nr = 1)
    <3>1. CASE b \in Waiting
      BY <1>1, <1>2, <1>3, <3>1 DEF CommandInv
    <3>2. CASE b \in ToSet(h)
      <4>1. b.nr = commanded + 1 /\ b.cmd = cmd
        BY <1>4, <3>2 DEF n
      <4> QED
        BY <1>1, <1>2, <4>1
    <3> QED
      BY <1>5, <3>1, <3>2
  <2>4. ASSUME NEW x \in ToSet(obeyed) PROVE x <= n /\ x < n
    <3>1. x <= commanded
      BY DEF CommandInv
    <3>2. x \in 1 .. MaxCommands
      BY LenProperties, ElementOfSeq DEF ToSet, CommandOK
    <3> QED
      BY <1>2, <3>1, <3>2
  <2>5. ASSUME NEW x \in ToSet(obeyed), NEW b \in Unread'
        PROVE x <= b.nr /\ (x = b.nr => b.part = 2)
    <3>1. CASE b \in Unread
      BY <3>1 DEF CommandInv
    <3>2. CASE b \in ToSet(h)
      <4>1. b.nr = n /\ x < n /\ x <= n
        BY <1>4, <2>4, <3>2
      <4>2. x # n
        <5>1. x \in 1 .. MaxCommands
          BY LenProperties, ElementOfSeq DEF ToSet, CommandOK
        <5> QED
          BY <1>2, <4>1, <5>1
      <4> QED
        BY <4>1, <4>2
    <3> QED
      BY <1>1, <1>4, <1>5, <3>1, <3>2 DEF Unread
  <2>6. obeyed' = obeyed /\ connectStatus' = connectStatus /\ buffer' = buffer /\ cleaning' = cleaning
    BY <1>1
  <2> QED
    BY <1>1, <1>2, <2>1, <2>2, <2>3, <2>4, <2>5, <2>6 DEF CommandInv, Ordered
<1>8. IntactInv'
  <2> SUFFICES ASSUME ~ split', blocks' = 0, 1 \notin flooded' PROVE
        /\ Whole(buffer') /\ Whole(up') /\ ~ cleaning'
        /\ \A m \in 1 .. commanded' :
             m \in ToSet(obeyed') \cup flooded' \/ \E b \in Waiting' : b.nr = m
    BY DEF IntactInv, Whole
  <2>1. /\ Whole(buffer) /\ Whole(up) /\ ~ cleaning
        /\ \A m \in 1 .. commanded :
             m \in ToSet(obeyed) \cup flooded \/ \E b \in Waiting : b.nr = m
    BY <1>1 DEF IntactInv
  <2>2. ASSUME NEW m \in 1 .. commanded'
        PROVE m \in ToSet(obeyed') \cup flooded' \/ \E b \in Waiting' : b.nr = m
    <3>1. CASE m = n
      BY <1>4, <1>5, <3>1
    <3>2. CASE m # n
      <4>1. m \in 1 .. commanded
        BY <1>1, <1>2, <3>2
      <4> QED
        BY <1>1, <1>5, <2>1, <4>1
    <3> QED
      BY <3>1, <3>2
  <2> QED
    BY <1>1, <1>4, <2>1, <2>2
<1> QED
  BY <1>6, <1>7, <1>8

\* A read that does not end inside a command leaves whole commands.
LEMMA WholeRead ==
  ASSUME up \in Seq(Half), Ordered(up), Whole(up), NEW n \in 1 .. Len(up), ~ EndsInside(n)
  PROVE Whole(SubSeq(up, 1, n)) /\ Whole(Rest(up, n))
<1> DEFINE q == Rest(up, n)
<1>1. Len(up) \in Nat /\ n \in 0 .. Len(up)
  BY HalfSeq
<1>2. /\ q \in Seq(Half) /\ Len(q) = Len(up) - n
      /\ \A i \in 1 .. Len(q) : q[i] = up[n + i]
  BY <1>1, Pieces
<1>3. n < Len(up) => up[n + 1].part = 1
  <2> SUFFICES ASSUME n < Len(up) PROVE up[n + 1].part = 1
    OBVIOUS
  <2>1. Len(q) > 0 /\ 1 \in 1 .. Len(q)
    BY <1>1, <1>2
  <2>2. q # <<>> /\ q[1] = up[n + 1]
    BY <1>2, <2>1, EmptySeq
  <2>3. Head(q) = q[1]
    BY <1>2, <2>2, HalfSeq
  <2> QED
    BY <2>2, <2>3 DEF EndsInside
<1> QED
  BY <1>1, <1>3, WholePieces

\* A read moves bytes from the stream into the empty buffer.
LEMMA ArriveStep == DeviceInv /\ DeviceBytesArrive => DeviceInv'
<1> SUFFICES ASSUME DeviceInv, DeviceBytesArrive PROVE DeviceInv'
  OBVIOUS
<1> USE DEF DeviceInv
<1>1. /\ connectStatus # "ended" /\ buffer = <<>> /\ ~ cleaning
      /\ UNCHANGED <<commanded, farewell, connectStatus, cleaning, closing, obeyed, flooded, blocks>>
  BY DEF DeviceBytesArrive, sendVars
<1>2. PICK n \in 1 .. Len(up) :
        /\ buffer' = SubSeq(up, 1, n) /\ up' = Rest(up, n)
        /\ split' = (split \/ EndsInside(n))
  BY DEF DeviceBytesArrive
<1>3. up \in Seq(Half) /\ Ordered(up) /\ Len(up) \in Nat /\ n \in 0 .. Len(up)
  BY HalfSeq DEF CommandOK, CommandInv
<1>4. /\ buffer' \in Seq(Half) /\ up' \in Seq(Half)
      /\ Ordered(buffer') /\ Ordered(up')
      /\ \A a \in ToSet(buffer'), b \in ToSet(up') : Precedes(a, b)
      /\ ToSet(up) = ToSet(buffer') \cup ToSet(up')
  BY <1>2, <1>3, Pieces
<1>5. Waiting' = Waiting /\ Unread' = Unread
  BY <1>1, <1>4, ToSetEmpty DEF Waiting, Unread
<1>6. CommandOK'
  BY <1>1, <1>2, <1>4 DEF CommandOK
<1>7. CommandInv'
  BY <1>1, <1>4, <1>5 DEF CommandInv, Ordered, Increasing
<1>8. IntactInv'
  <2> SUFFICES ASSUME ~ split', blocks' = 0, 1 \notin flooded' PROVE
        /\ Whole(buffer') /\ Whole(up') /\ ~ cleaning'
        /\ \A m \in 1 .. commanded' :
             m \in ToSet(obeyed') \cup flooded' \/ \E b \in Waiting' : b.nr = m
    BY DEF IntactInv, Whole
  <2>1. ~ split /\ ~ EndsInside(n)
    BY <1>2
  <2>2. /\ Whole(up)
        /\ \A m \in 1 .. commanded :
             m \in ToSet(obeyed) \cup flooded \/ \E b \in Waiting : b.nr = m
    BY <1>1, <2>1 DEF IntactInv
  <2>3. Whole(buffer') /\ Whole(up')
    BY <1>2, <1>3, <2>1, <2>2, WholeRead
  <2> QED
    BY <1>1, <1>5, <2>2, <2>3
<1> QED
  BY <1>6, <1>7, <1>8

\* A read that fills the buffer takes commands away, whole ones if it is not split.
LEMMA OverfillStep == DeviceInv /\ BufferOverfilled => DeviceInv'
<1> SUFFICES ASSUME DeviceInv, BufferOverfilled PROVE DeviceInv'
  OBVIOUS
<1> USE DEF DeviceInv
<1>1. /\ connectStatus # "ended" /\ buffer = <<>> /\ ~ cleaning
      /\ UNCHANGED <<commanded, farewell, connectStatus, buffer, cleaning, closing, obeyed, blocks>>
  BY DEF BufferOverfilled, sendVars
<1>2. PICK n \in 1 .. Len(up) :
        /\ up' = Rest(up, n) /\ split' = (split \/ EndsInside(n))
        /\ flooded' = flooded \cup NumbersIn(SubSeq(up, 1, n))
  BY DEF BufferOverfilled
<1> DEFINE p == SubSeq(up, 1, n)
<1>3. up \in Seq(Half) /\ Ordered(up) /\ Len(up) \in Nat /\ n \in 0 .. Len(up)
  BY HalfSeq DEF CommandOK, CommandInv
<1>4. /\ p \in Seq(Half) /\ up' \in Seq(Half) /\ Ordered(up')
      /\ ToSet(up) = ToSet(p) \cup ToSet(up')
  BY <1>2, <1>3, Pieces
<1>5. flooded' = flooded \cup {h.nr : h \in ToSet(p)}
  BY <1>2 DEF NumbersIn
<1> HIDE DEF p
<1>6. {h.nr : h \in ToSet(p)} \subseteq 1 .. MaxCommands
  BY <1>4, HalfSeq, HalfNumbers
<1>7. Waiting' = ToSet(up') /\ Waiting = ToSet(up) /\ Unread = Waiting /\ Unread' = Waiting'
  BY <1>1, ToSetEmpty DEF Waiting, Unread
<1>8. CommandOK'
  BY <1>1, <1>2, <1>4, <1>5, <1>6 DEF CommandOK
<1>9. CommandInv'
  <2>1. Waiting' \subseteq Waiting /\ Unread' \subseteq Unread /\ ToSet(buffer') = {}
    BY <1>1, <1>4, <1>7, ToSetEmpty
  <2> QED
    BY <1>1, <1>4, <2>1 DEF CommandInv, Ordered, Increasing
<1>10. IntactInv'
  <2> SUFFICES ASSUME ~ split', blocks' = 0, 1 \notin flooded' PROVE
        /\ Whole(buffer') /\ Whole(up') /\ ~ cleaning'
        /\ \A m \in 1 .. commanded' :
             m \in ToSet(obeyed') \cup flooded' \/ \E b \in Waiting' : b.nr = m
    BY DEF IntactInv, Whole
  <2>1. ~ split /\ ~ EndsInside(n) /\ 1 \notin flooded
    BY <1>2
  <2>2. /\ Whole(up) /\ Whole(buffer)
        /\ \A m \in 1 .. commanded :
             m \in ToSet(obeyed) \cup flooded \/ \E b \in Waiting : b.nr = m
    BY <1>1, <2>1 DEF IntactInv
  <2>3. Whole(up')
    BY <1>2, <1>3, <2>1, <2>2, WholeRead
  <2>4. ASSUME NEW m \in 1 .. commanded
        PROVE m \in ToSet(obeyed) \cup flooded' \/ \E b \in Waiting' : b.nr = m
    <3>1. CASE m \in ToSet(obeyed) \cup flooded
      BY <1>5, <3>1
    <3>2. CASE \E b \in Waiting : b.nr = m
      <4>1. PICK b \in ToSet(up) : b.nr = m
        BY <1>7, <3>2
      <4>2. b \in ToSet(p) \/ b \in Waiting'
        BY <1>4, <1>7
      <4> QED
        BY <1>5, <4>1, <4>2
    <3> QED
      BY <2>2, <3>1, <3>2
  <2> QED
    BY <1>1, <2>2, <2>3, <2>4
<1> QED
  BY <1>8, <1>9, <1>10

LEMMA ForgetStep == DeviceInv /\ DeviceBytesForgotten => DeviceInv'
<1> SUFFICES ASSUME DeviceInv, DeviceBytesForgotten PROVE DeviceInv'
  OBVIOUS
<1> USE DEF DeviceInv
<1>1. /\ cleaning /\ cleaning' = FALSE /\ buffer' = <<>>
      /\ UNCHANGED <<commanded, farewell, connectStatus, closing, obeyed, flooded, blocks>>
  BY DEF DeviceBytesForgotten, sendVars
<1>2. PICK n \in 0 .. Len(up) : up' = Rest(up, n) /\ split' = (split \/ EndsInside(n))
  BY DEF DeviceBytesForgotten
<1>3. up \in Seq(Half) /\ Ordered(up)
  BY DEF CommandOK, CommandInv
<1>4. up' \in Seq(Half) /\ Ordered(up') /\ ToSet(up') \subseteq ToSet(up)
  BY <1>2, <1>3, Pieces
<1>5. ToSet(buffer') = {} /\ buffer' \in Seq(Half) /\ Ordered(buffer')
  BY <1>1, ToSetEmpty, EmptySeq DEF Ordered
<1>6. Waiting' \subseteq Waiting /\ Unread' \subseteq Unread
  BY <1>1, <1>4, <1>5 DEF Waiting, Unread
<1>7. CommandOK'
  BY <1>1, <1>2, <1>4, <1>5 DEF CommandOK
<1>8. CommandInv'
  BY <1>1, <1>4, <1>5, <1>6 DEF CommandInv, Ordered, Increasing
<1>9. IntactInv'
  BY <1>1, <1>2 DEF IntactInv
<1> QED
  BY <1>7, <1>8, <1>9

LEMMA EndsStep == DeviceInv /\ SessionEnds => DeviceInv'
<1> SUFFICES ASSUME DeviceInv, SessionEnds PROVE DeviceInv'
  OBVIOUS
<1> USE DEF DeviceInv
<1>1. /\ buffer = <<>> /\ ~ cleaning /\ connectStatus' = "ended" /\ up' = <<>>
      /\ UNCHANGED <<commanded, farewell, buffer, cleaning, closing, obeyed, split, flooded,
                     blocks>>
  BY DEF SessionEnds
<1>2. Waiting' = {} /\ Unread' = {} /\ ToSet(buffer) = {} /\ ToSet(up') = {}
  BY <1>1, ToSetEmpty DEF Waiting, Unread
<1>3. up' \in Seq(Half) /\ Ordered(up') /\ Whole(up')
  BY <1>1, EmptySeq DEF Ordered, Whole
<1>4. CommandOK'
  BY <1>1, <1>3 DEF CommandOK
<1>5. CommandInv'
  BY <1>1, <1>2, <1>3 DEF CommandInv, Ordered, Increasing
<1>6. IntactInv'
  BY <1>1, <1>3 DEF IntactInv, Whole
<1> QED
  BY <1>4, <1>5, <1>6

LEMMA SendCounts ==
  ASSUME SendOK, NEW m, Send(m)
  PROVE /\ blocks \in Nat /\ blocks' \in Nat /\ blocks <= blocks'
        /\ Blocked => blocks' > 0
<1>1. blocks \in Nat
  BY DEF SendOK
<1>2. UNCHANGED <<fMsgList, blocks>> \/ blocks' = blocks + 1
  BY DEF Send
<1> QED
  BY <1>1, <1>2 DEF Blocked

LEMMA DeviceStep ==
  SendOK /\ DeviceInv /\ [Next]_vars => DeviceInv'
<1> SUFFICES ASSUME SendOK, DeviceInv, [Next]_vars PROVE DeviceInv'
  OBVIOUS
<1>0. blocks \in Nat /\ CommandOK /\ CommandInv
  BY DEF SendOK, DeviceInv
<1>1. CASE mqtt_handle_connect
  <2>1. PICK m : Send(m)
    BY <1>1 DEF mqtt_handle_connect, Reply
  <2>2. blocks' \in Nat /\ blocks <= blocks' /\ (Blocked => blocks' > 0)
    BY <2>1, SendCounts
  <2>3. Finds("CONNECT") /\ connectStatus' = "connected" /\ Obeys /\ Concludes(Blocked) /\ closing' = closing
    BY <1>1 DEF mqtt_handle_connect
  <2> HIDE DEF Blocked
  <2>4. Blocked \in BOOLEAN /\ closing' \in BOOLEAN
    BY <1>0, <2>3 DEF Blocked, CommandOK
  <2> QED
    BY <1>0, <2>2, <2>3, <2>4, ObeyStep DEF Finds, Obeys, Concludes, Consumed
<1>2. CASE mqtt_handle_pingreq
  <2>1. PICK m : Send(m)
    BY <1>2 DEF mqtt_handle_pingreq, Reply
  <2>2. blocks' \in Nat /\ blocks <= blocks' /\ (Blocked => blocks' > 0)
    BY <2>1, SendCounts
  <2>3. /\ Finds("PINGREQ") /\ connectStatus' = connectStatus /\ Obeys /\ Concludes(Blocked)
        /\ closing' = closing
    BY <1>2 DEF mqtt_handle_pingreq
  <2>4. connectStatus' \in {"connected", "disconnecting"}
    BY <1>0, <2>3 DEF Finds, CommandInv, CommandOK
  <2>5. Blocked \in BOOLEAN /\ closing' \in BOOLEAN
    BY <1>0, <2>3 DEF Blocked, CommandOK
  <2> QED
    BY <1>0, <2>2, <2>3, <2>4, <2>5, ObeyStep DEF Finds, Obeys, Concludes, Consumed
<1>3. CASE mqtt_handle_disconnect
  <2>1. /\ Finds("DISCONNECT") /\ connectStatus' = "disconnecting" /\ Obeys /\ Concludes(FALSE)
        /\ closing' = TRUE /\ blocks' = blocks
    BY <1>3 DEF mqtt_handle_disconnect, sendVars
  <2> DEFINE error == FALSE
  <2>2. error \in BOOLEAN /\ (error => blocks' > 0) /\ Concludes(error) /\ closing' \in BOOLEAN
    BY <2>1
  <2>3. blocks' \in Nat /\ blocks <= blocks'
    BY <1>0, <2>1
  <2> HIDE DEF error
  <2> QED
    BY <1>0, <2>1, <2>2, <2>3, ObeyStep DEF Finds, Obeys, Concludes, Consumed
<1>4. CASE ConnectRefused
  <2>1. PICK m : Send(m)
    BY <1>4 DEF ConnectRefused, Reply
  <2>2. blocks' \in Nat /\ blocks <= blocks'
    BY <2>1, SendCounts
  <2>3. /\ Finds("CONNECT") /\ ~ Len(buffer) >= 2 /\ closing' = TRUE /\ Concludes(TRUE)
        /\ UNCHANGED <<connectStatus, obeyed>>
    BY <1>4 DEF ConnectRefused, ReadStringFails, Complete
  <2>4. split \/ blocks # 0 \/ 1 \in flooded
    BY <2>3, FrontIsObeyed DEF Finds
  <2>5. split \/ blocks' # 0 \/ 1 \in flooded
    BY <1>0, <2>2, <2>4
  <2> QED
    BY <2>3, <2>5, RefuseStep DEF Finds, Concludes
<1>5. CASE ProtocolError
  <2>1. /\ ~ cleaning /\ buffer # <<>> /\ Concludes(TRUE) /\ blocks' = blocks
        /\ Head(buffer).part # 1 \/ (connectStatus = "new" /\ Head(buffer).cmd # "CONNECT")
        /\ UNCHANGED <<connectStatus, closing, obeyed>>
    BY <1>5 DEF ProtocolError, sendVars
  <2>2. split \/ blocks # 0 \/ 1 \in flooded
    BY <2>1, FrontIsObeyed
  <2>3. closing' \in BOOLEAN
    BY <1>0, <2>1 DEF CommandOK
  <2> QED
    BY <2>1, <2>2, <2>3, RefuseStep DEF Concludes
<1>6. CASE ProcessRecvMsg
  <2>1. UNCHANGED commandVars
    BY <1>6 DEF ProcessRecvMsg
  <2>2. UNCHANGED sendVars \/ \E m : Send(m)
    <3>1. PICK len : IF nLen >= len + 37 THEN PacketHandle(Head(packets))
                     ELSE UNCHANGED <<handled, sendVars>>
      BY <1>6 DEF ProcessRecvMsg
    <3> QED
      BY <3>1 DEF PacketHandle, mqtt_send_publish
  <2>3. blocks' \in Nat /\ blocks <= blocks'
    BY <1>0, <2>2, SendCounts DEF sendVars
  <2> QED
    BY <1>0, <2>1, <2>3, DeviceFrame
<1>7. CASE \/ ProviderSends \/ ReadRequest \/ ParamError \/ EndOfBuffer \/ CleanupRequest
           \/ WriteEvent \/ DeviceTakes
  <2>1. UNCHANGED commandVars /\ blocks' = blocks
    BY <1>7 DEF ProviderSends, ReadRequest, ParamError, EndOfBuffer, CleanupRequest,
       WriteEvent, DeviceTakes, sendVars
  <2> QED
    BY <1>0, <2>1, DeviceFrame
<1>8. CASE UNCHANGED vars
  <2>1. UNCHANGED commandVars /\ blocks' = blocks
    BY <1>8 DEF vars, commandVars
  <2> QED
    BY <1>0, <2>1, DeviceFrame
<1>9. CASE DeviceBytesArrive \/ BufferOverfilled \/ DeviceBytesForgotten \/ SessionEnds
  BY <1>9, ArriveStep, OverfillStep, ForgetStep, EndsStep
<1>10. ASSUME NEW cmd \in {"CONNECT", "PINGREQ", "DISCONNECT"}, DeviceSends(cmd) PROVE DeviceInv'
  BY <1>10, DeviceSendsStep
<1> QED
  BY <1>1, <1>2, <1>3, <1>4, <1>5, <1>6, <1>7, <1>8, <1>9, <1>10 DEF Next, SslSvrSession, MqttServer

LEMMA DeviceInit == Init => DeviceInv
<1> SUFFICES ASSUME Init PROVE DeviceInv
  OBVIOUS
<1>1. CommandOK
  <2>1. commanded \in 0 .. MaxCommands
    BY DEF Init
  <2>2. up \in Seq(Half) /\ buffer \in Seq(Half) /\ obeyed \in Seq(1 .. MaxCommands)
    BY EmptySeq DEF Init
  <2> QED
    BY <2>1, <2>2 DEF Init, CommandOK
<1>2. Waiting = {} /\ Unread = {} /\ ToSet(<<>>) = {}
  BY ToSetEmpty DEF Init, Waiting, Unread
<1>3. CommandInv
  BY <1>2 DEF Init, CommandInv, Ordered, Increasing
<1>4. IntactInv
  BY DEF Init, IntactInv, Whole
<1> QED
  BY <1>1, <1>3, <1>4 DEF DeviceInv

LEMMA DeviceAlways == Spec => []DeviceInv
  BY DeviceInit, DeviceStep, PushAlways, PTL DEF Spec

\* The device's commands are obeyed in their order, each at most once, and unless a
\* read was split, an answer met a full socket or a full buffer took the CONNECT,
\* only those in full buffers are lost (MqttServer::Run, ProcessRecvMsg,
\* CleanupRequest).
THEOREM ObeyedInOrder == Spec => []CommandsObeyed
<1>1. DeviceInv => CommandsObeyed
  <2> SUFFICES ASSUME DeviceInv PROVE CommandsObeyed
    OBVIOUS
  <2>1. ToSet(buffer \o up) = Waiting
    BY ToSetConcat DEF DeviceInv, CommandOK, Waiting
  <2> QED
    BY <2>1 DEF DeviceInv, CommandInv, IntactInv, CommandsObeyed
<1> QED
  BY <1>1, DeviceAlways, PTL

\* Every variable keeps its type.
THEOREM TypeCorrect == Spec => []TypeOK
<1>1. ProviderInv /\ SendOK /\ DeviceInv => TypeOK
  BY DEF ProviderInv, ProviderOK, SendOK, DeviceInv, CommandOK, TypeOK
<1> QED
  BY <1>1, ProviderAlways, PushAlways, DeviceAlways, PTL

=============================================================================
