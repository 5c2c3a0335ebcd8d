--------------------------- MODULE RemoteLinkProofs ---------------------------
(***************************************************************************)
(* Proof that the remote link executes every command exactly once and in   *)
(* order, for any numbering, any length of a line, any buffers and any     *)
(* losses: RemoteLink implements CommandDelivery.                          *)
(*                                                                         *)
(* Two neighbours at most are ever under way, the last command executed    *)
(* and the one being sent, and the link keeps their order in both          *)
(* directions; so one number that differs between neighbours is enough.    *)
(***************************************************************************)
EXTENDS RemoteLink, SequenceTheorems, WellFoundedInduction, TLAPS

Done == Len(executed)

\* A newline belongs to no command.
Under(b) == b.cmd = 0 \/ (Done <= b.cmd /\ b.cmd <= sending)

Before(a, b) == b.cmd = 0 \/ a.cmd <= b.cmd

\* What is on the way to the aircraft is of the two neighbours, the older first.
UplinkInv ==
  /\ \A i \in DOMAIN command_buf : Under(command_buf[i])
  /\ \A i \in DOMAIN uplink : Under(uplink[i])
  /\ \A i, j \in DOMAIN uplink : i < j => Before(uplink[i], uplink[j])
  /\ \A i \in DOMAIN command_buf, j \in DOMAIN uplink : Before(command_buf[i], uplink[j])

Reports(n, c) == n = 0 \/ (c > 0 /\ n = SequenceNum(c))

\* What is on the way to the ground reports the two neighbours, the older first.
DownlinkInv ==
  /\ \A i \in DOMAIN downlink : Reports(downlink[i], Done) \/ Reports(downlink[i], sending - 1)
  /\ \A i, j \in DOMAIN downlink :
       i < j /\ downlink[i] = SequenceNum(sending) => Reports(downlink[j], sending)

LinkInv ==
  /\ TypeOK
  /\ Done \in {sending - 1, sending}
  /\ last_sequence_num = IF Done = 0 THEN -1 ELSE SequenceNum(Done)
  /\ Reports(link_sequence_num, Done)
  /\ UplinkInv
  /\ DownlinkInv

-----------------------------------------------------------------------------
(* Numbers *)

\* Neighbours differ in their numbers.
LEMMA NumbersDiffer ==
  ASSUME NEW c \in Nat \ {0}
  PROVE  /\ SequenceNum(c) \in 1 .. SequenceNumbers
         /\ SequenceNum(c + 1) # SequenceNum(c)
<1> DEFINE N == SequenceNumbers
           a == c - 1
<1>1. N \in Nat /\ N >= 2 /\ a \in Nat
  BY NumbersAssumption
<1> HIDE DEF N, a
<1>2. a % N \in 0 .. N - 1 /\ (a + 1) % N \in 0 .. N - 1
  BY <1>1
<1>3. (a + 1) % N # a % N
  <2>1. /\ a = N * (a \div N) + (a % N)
        /\ a + 1 = N * ((a + 1) \div N) + ((a + 1) % N)
    BY <1>1
  <2>2. a \div N \in Int /\ (a + 1) \div N \in Int
    BY <1>1
  <2> DEFINE d == ((a + 1) \div N) - (a \div N)
  <2>3. ASSUME (a + 1) % N = a % N PROVE N * d = 1
    BY <2>1, <2>2, <2>3, <1>1, <1>2
  <2>4. d \in Int
    BY <2>2
  <2> HIDE DEF d
  <2>5. N * d # 1
    <3>1. CASE d <= 0
      BY <1>1, <2>4, <3>1
    <3>2. CASE d >= 1
      BY <1>1, <2>4, <3>2
    <3>3. QED
      BY <2>4, <3>1, <3>2
  <2>6. QED
    BY <2>3, <2>5
<1>4. QED
  BY <1>1, <1>2, <1>3 DEF SequenceNum, N, a

\* A number fits the byte of the status packet.
LEMMA NumberFits ==
  ASSUME NEW n \in 0 .. SequenceNumbers
  PROVE  Int8(n) = n
<1>1. n \in 0 .. 127
  BY NumbersAssumption
<1>2. (n + 128) % 256 = n + 128
  BY <1>1
<1>3. QED
  BY <1>1, <1>2 DEF Int8

-----------------------------------------------------------------------------
(* The ends of lines *)

LEMMA BytesHaveCommands ==
  /\ \A b \in Bytes : b.cmd \in Nat
  /\ \A c \in Commands : c \in Nat \ {0}
BY BoundsAssumption DEF Bytes, Newline, Commands

LEMMA NatIsOrdered ==
  \E R : (\A x, y \in Nat : <<y, x>> \in R <=> y < x) /\ IsWellFoundedOn(R, Nat)
<1>1. \A x, y \in Nat : <<y, x>> \in OpToRel(<, Nat) <=> y < x
  BY DEF OpToRel
<1>2. IsWellFoundedOn(OpToRel(<, Nat), Nat)
  BY NatLessThanWellFounded
<1>3. QED
  BY <1>1, <1>2, Zenon

LEMMA LeastOf ==
  ASSUME NEW T \in SUBSET Nat, T # {}
  PROVE  \E x \in T : \A y \in T : x <= y
<1>1. PICK R : (\A x, y \in Nat : <<y, x>> \in R <=> y < x) /\ IsWellFoundedOn(R, Nat)
  BY NatIsOrdered
<1>2. PICK x \in T : \A y \in T : ~ (<<y, x>> \in R)
  BY <1>1, WFMin
<1>3. \A y \in T : ~ (y < x)
  BY <1>1, <1>2
<1>4. QED
  BY <1>3

LEMMA EndIsNewline ==
  ASSUME TypeOK
  PROVE  /\ EndOfLine # 0 => EndOfLine \in 1 .. Len(uplink)
         /\ EndOfLine = 0 => \A k \in 1 .. Len(uplink) : k <= Room => uplink[k] # Newline
<1> DEFINE T == {k \in 1 .. Len(uplink) : uplink[k] = Newline}
<1>1. Len(uplink) \in Nat
  BY DEF TypeOK
<1>2. CASE \E k \in 1 .. Len(uplink) : k <= Room /\ uplink[k] = Newline
  <2>0. T \in SUBSET Nat /\ T # {}
    BY <1>1, <1>2
  <2>1. PICK x \in T : \A y \in T : x <= y
    BY <2>0, LeastOf
  <2>2. x \in 1 .. Len(uplink) /\ uplink[x] = Newline /\ \A j \in 1 .. x - 1 : uplink[j] # Newline
    BY <1>1, <2>1
  <2>3. EndOfLine = CHOOSE k \in 1 .. Len(uplink) :
                      uplink[k] = Newline /\ \A j \in 1 .. k - 1 : uplink[j] # Newline
    BY <1>2 DEF EndOfLine
  <2>4. EndOfLine \in 1 .. Len(uplink)
    BY <2>2, <2>3
  <2>5. QED
    BY <1>1, <2>4
<1>3. CASE ~ \E k \in 1 .. Len(uplink) : k <= Room /\ uplink[k] = Newline
  BY <1>3 DEF EndOfLine
<1>4. QED
  BY <1>2, <1>3

-----------------------------------------------------------------------------
(* The types of what is read, sent and lost *)

\* What a step needs to know of the types.
LEMMA Types ==
  ASSUME TypeOK
  PROVE  /\ command_buf \in Seq(Bytes) /\ uplink \in Seq(Bytes)
         /\ Len(command_buf) \in Nat /\ Len(uplink) \in Nat /\ Len(downlink) \in Nat
         /\ DOMAIN command_buf = 1 .. Len(command_buf)
         /\ DOMAIN uplink = 1 .. Len(uplink) /\ DOMAIN downlink = 1 .. Len(downlink)
         /\ \A i \in DOMAIN command_buf : command_buf[i].cmd \in Nat
         /\ \A i \in DOMAIN uplink : uplink[i].cmd \in Nat
         /\ Done \in Nat /\ sending \in Nat \ {0}
         /\ MaxCommands \in Nat /\ BufSize \in Nat \ {0}
<1>1. /\ command_buf \in Seq(Bytes \ {Newline}) /\ uplink \in Seq(Bytes)
      /\ downlink \in Seq(0 .. SequenceNumbers) /\ executed \in Seq(Commands)
  BY DEF TypeOK
<1>2. command_buf \in Seq(Bytes)
  BY <1>1, SeqMonotonic
<1>3. \A i \in DOMAIN command_buf : command_buf[i] \in Bytes
  BY <1>2
<1>4. \A i \in DOMAIN uplink : uplink[i] \in Bytes
  BY <1>1
<1>5. sending \in Nat \ {0} /\ MaxCommands \in Nat /\ BufSize \in Nat \ {0}
  BY BoundsAssumption, LineAssumption DEF TypeOK
<1>6. QED
  BY <1>1, <1>2, <1>3, <1>4, <1>5, BytesHaveCommands DEF Done

LEMMA WithoutIs ==
  ASSUME NEW S, NEW s \in Seq(S), NEW i \in 1 .. Len(s), NEW j \in 1 .. Len(s), i <= j
  PROVE  /\ Without(s, i, j) \in Seq(S)
         /\ Len(Without(s, i, j)) = Len(s) - (j - i + 1)
         /\ \A k \in 1 .. Len(s) - (j - i + 1) :
              Without(s, i, j)[k] = s[IF k < i THEN k ELSE k + (j - i + 1)]
<1> DEFINE n == Len(s) - (j - i + 1)
           w == [k \in 1 .. n |-> IF k < i THEN s[k] ELSE s[k + (j - i + 1)]]
<1>1. n \in Nat
  OBVIOUS
<1>2. \A k \in 1 .. n : (IF k < i THEN s[k] ELSE s[k + (j - i + 1)]) \in S
  OBVIOUS
<1>3. w \in [1 .. n -> S]
  BY <1>2
<1>4. w \in Seq(S) /\ Len(w) = n
  BY <1>1, <1>3, SeqDef
<1>5. Without(s, i, j) = w
  BY DEF Without
<1> HIDE DEF w
<1>6. \A k \in 1 .. n : w[k] = s[IF k < i THEN k ELSE k + (j - i + 1)]
  BY DEF w
<1>7. QED
  BY <1>4, <1>5, <1>6

\* A line and its newline.
LEMMA LineIs ==
  ASSUME NEW c \in Commands
  PROVE  /\ Line(c) \in Seq(Bytes) /\ Len(Line(c)) = LineLength
         /\ Append(Line(c), Newline) \in Seq(Bytes)
         /\ Len(Append(Line(c), Newline)) = LineLength + 1
         /\ \A i \in 1 .. LineLength : Append(Line(c), Newline)[i].cmd = c
         /\ Append(Line(c), Newline)[LineLength + 1].cmd = 0
         /\ Line(c)[1].cmd = c
         /\ LineLength \in Nat \ {0}
<1>1. LineLength \in Nat \ {0}
  BY LineAssumption
<1>2. \A i \in 1 .. LineLength : [cmd |-> c, pos |-> i] \in Bytes
  BY DEF Bytes
<1>3. Line(c) \in [1 .. LineLength -> Bytes]
  BY <1>2 DEF Line
<1>4. Line(c) \in Seq(Bytes) /\ Len(Line(c)) = LineLength
  BY <1>1, <1>3, SeqDef
<1>5. \A i \in 1 .. LineLength : Line(c)[i].cmd = c
  BY DEF Line
<1>6. Newline \in Bytes /\ Newline.cmd = 0
  BY DEF Bytes, Newline
<1> DEFINE l == Line(c)
<1> HIDE DEF l
<1>7. l \in Seq(Bytes) /\ Len(l) = LineLength /\ \A i \in 1 .. LineLength : l[i].cmd = c
  BY <1>4, <1>5 DEF l
<1>8. /\ Append(l, Newline) \in Seq(Bytes) /\ Len(Append(l, Newline)) = LineLength + 1
      /\ \A i \in 1 .. LineLength : Append(l, Newline)[i] = l[i]
      /\ Append(l, Newline)[LineLength + 1] = Newline
  BY <1>1, <1>6, <1>7, AppendProperties
<1>9. QED
  BY <1>1, <1>6, <1>7, <1>8 DEF l

-----------------------------------------------------------------------------
(* The steps of the ground station and of the link *)

\* The parts of the invariant that a step of the other side leaves alone.
LEMMA SameUplink ==
  ASSUME LinkInv, UNCHANGED <<command_buf, uplink, executed>>, sending <= sending', sending' \in Nat
  PROVE  UplinkInv'
<1>1. Done' = Done
  BY DEF Done
<1>2. Done \in Nat /\ sending \in Nat
  BY Types DEF LinkInv
<1>3. \A i \in DOMAIN command_buf : Under(command_buf[i])'
  BY <1>1, <1>2, Types DEF LinkInv, UplinkInv, Under
<1>4. \A i \in DOMAIN uplink : Under(uplink[i])'
  BY <1>1, <1>2, Types DEF LinkInv, UplinkInv, Under
<1>5. QED
  BY <1>3, <1>4 DEF LinkInv, UplinkInv, Before

LEMMA SameDownlink ==
  ASSUME LinkInv, UNCHANGED <<downlink, executed, sending>>
  PROVE  DownlinkInv'
BY DEF LinkInv, DownlinkInv, Reports, Done

LEMMA SendKeeps ==
  ASSUME LinkInv, GroundSend
  PROVE  LinkInv'
<1> DEFINE line == Append(Line(sending), Newline)
           n == Len(uplink)
<1>1. /\ sending \in Commands /\ uplink' = uplink \o line
      /\ UNCHANGED <<link_type, link_open, link_sequence_num, last_sequence_num, command_buf,
                     executed, connected, downlink, losses, shutdowns, sending>>
  BY DEF GroundSend, aircraftVars
<1>2. /\ line \in Seq(Bytes) /\ Len(line) = LineLength + 1 /\ LineLength \in Nat
      /\ \A i \in 1 .. LineLength + 1 : line[i].cmd \in {0, sending}
  BY <1>1, LineIs
<1>3. TypeOK
  BY DEF LinkInv
<1>4. uplink \in Seq(Bytes) /\ n \in Nat
  BY <1>3, Types
<1> HIDE DEF line
<1>5. /\ uplink' \in Seq(Bytes) /\ Len(uplink') = n + LineLength + 1
      /\ \A i \in 1 .. n + LineLength + 1 : uplink'[i] = IF i <= n THEN uplink[i] ELSE line[i - n]
  <2>1. /\ uplink \o line \in Seq(Bytes) /\ Len(uplink \o line) = Len(uplink) + Len(line)
        /\ \A i \in 1 .. Len(uplink) + Len(line) :
             (uplink \o line)[i] = IF i <= Len(uplink) THEN uplink[i] ELSE line[i - Len(uplink)]
    BY <1>2, <1>4, ConcatProperties
  <2>2. Len(uplink) + Len(line) = n + LineLength + 1
    BY <1>2, <1>4
  <2> HIDE DEF n
  <2>3. QED
    BY <1>1, <2>1, <2>2 DEF n
<1>6. TypeOK'
  BY <1>1, <1>3, <1>5 DEF TypeOK
<1>7. Done' = Done /\ Done \in Nat /\ sending \in Nat /\ Done <= sending
  BY <1>1, <1>3, Types DEF Done, LinkInv
<1>8. \A i \in DOMAIN uplink' : \/ i \in DOMAIN uplink /\ uplink'[i] = uplink[i]
                                \/ i > n /\ uplink'[i].cmd \in {0, sending}
  <2>1. TAKE i \in DOMAIN uplink'
  <2>2. i \in 1 .. n + LineLength + 1 /\ DOMAIN uplink = 1 .. n
    BY <1>4, <1>5
  <2> HIDE DEF n
  <2>3. CASE i <= n
    BY <1>4, <1>5, <2>2, <2>3
  <2>4. CASE i > n
    <3>1. i - n \in 1 .. LineLength + 1
      BY <1>2, <1>4, <2>2, <2>4
    <3>2. uplink'[i] = line[i - n]
      BY <1>4, <1>5, <2>2, <2>4
    <3>3. QED
      BY <1>2, <2>4, <3>1, <3>2
  <2>5. QED
    BY <1>4, <2>2, <2>3, <2>4
<1>9. \A i \in DOMAIN uplink' : uplink'[i].cmd = 0 \/ (Done <= uplink'[i].cmd /\ uplink'[i].cmd <= sending)
  BY <1>7, <1>8 DEF LinkInv, UplinkInv, Under
<1>10. \A i, j \in DOMAIN uplink' : i < j => Before(uplink'[i], uplink'[j])
  <2>1. TAKE i, j \in DOMAIN uplink'
  <2>2. HAVE i < j
  <2>3. CASE j \in DOMAIN uplink /\ uplink'[j] = uplink[j]
    <3>1. i \in DOMAIN uplink /\ uplink'[i] = uplink[i]
      BY <1>4, <1>5, <2>2, <2>3
    <3>2. QED
      BY <2>2, <2>3, <3>1 DEF LinkInv, UplinkInv
  <2>4. CASE uplink'[j].cmd \in {0, sending}
    BY <1>7, <1>9, <2>4 DEF Before
  <2>5. QED
    BY <1>8, <2>3, <2>4
<1>11. \A i \in DOMAIN command_buf, j \in DOMAIN uplink' : Before(command_buf[i], uplink'[j])
  <2>1. TAKE i \in DOMAIN command_buf, j \in DOMAIN uplink'
  <2>2. CASE j \in DOMAIN uplink /\ uplink'[j] = uplink[j]
    BY <2>2 DEF LinkInv, UplinkInv
  <2>3. CASE uplink'[j].cmd \in {0, sending}
    <3>1. command_buf[i].cmd = 0 \/ command_buf[i].cmd <= sending
      BY DEF LinkInv, UplinkInv, Under
    <3>2. QED
      BY <1>7, <2>3, <3>1 DEF Before
  <2>4. QED
    BY <1>8, <2>2, <2>3
<1>12. UplinkInv'
  BY <1>1, <1>7, <1>9, <1>10, <1>11 DEF LinkInv, UplinkInv, Under, Before
<1>13. DownlinkInv'
  BY <1>1, SameDownlink
<1>14. QED
  BY <1>1, <1>6, <1>7, <1>12, <1>13 DEF LinkInv, Reports

LEMMA LoseKeeps ==
  ASSUME LinkInv, NEW i \in 1 .. Len(uplink), NEW j \in 1 .. Len(uplink), LoseBytes(i, j)
  PROVE  LinkInv'
<1> DEFINE n == Len(uplink) - (j - i + 1)
           from(k) == IF k < i THEN k ELSE k + (j - i + 1)
<1>1. /\ losses < MaxLosses /\ i <= j /\ uplink' = Without(uplink, i, j) /\ losses' = losses + 1
      /\ UNCHANGED <<link_type, link_open, link_sequence_num, last_sequence_num, command_buf,
                     executed, connected, downlink, shutdowns, sending>>
  BY DEF LoseBytes, aircraftVars
<1>2. TypeOK /\ uplink \in Seq(Bytes) /\ Len(uplink) \in Nat
  BY Types DEF LinkInv
<1>3. /\ uplink' \in Seq(Bytes) /\ Len(uplink') = n
      /\ \A k \in 1 .. n : uplink'[k] = uplink[from(k)]
  BY <1>1, <1>2, WithoutIs
<1>4. /\ \A k \in 1 .. n : from(k) \in DOMAIN uplink
      /\ \A k, m \in 1 .. n : k < m => from(k) < from(m)
      /\ DOMAIN uplink' = 1 .. n
  BY <1>1, <1>2, <1>3
<1> HIDE DEF from, n
<1>5. losses' \in 0 .. MaxLosses
  BY <1>1, <1>2, BoundsAssumption DEF TypeOK
<1>6. TypeOK'
  BY <1>1, <1>2, <1>3, <1>5 DEF TypeOK
<1>7. Done' = Done
  BY <1>1 DEF Done
<1>8. UplinkInv'
  <2>1. \A k \in DOMAIN uplink' : Under(uplink'[k])
    BY <1>3, <1>4 DEF LinkInv, UplinkInv
  <2>2. \A k, m \in DOMAIN uplink' : k < m => Before(uplink'[k], uplink'[m])
    BY <1>3, <1>4 DEF LinkInv, UplinkInv
  <2>3. \A k \in DOMAIN command_buf, m \in DOMAIN uplink' : Before(command_buf[k], uplink'[m])
    BY <1>3, <1>4 DEF LinkInv, UplinkInv
  <2>4. QED
    BY <1>1, <1>7, <2>1, <2>2, <2>3 DEF LinkInv, UplinkInv, Under, Before
<1>9. DownlinkInv'
  BY <1>1, SameDownlink
<1>10. QED
  BY <1>1, <1>6, <1>7, <1>8, <1>9 DEF LinkInv, Reports

\* The station goes on to the next command when the one it sends has been executed, and
\* what then comes back reports that one.
LEMMA ReceiveKeeps ==
  ASSUME LinkInv, GroundReceive
  PROVE  /\ LinkInv'
         /\ executed' = executed
         /\ sending' # sending => sending' = sending + 1 /\ Done = sending
<1>1. /\ downlink # << >> /\ downlink' = Tail(downlink)
      /\ UNCHANGED <<link_type, link_open, link_sequence_num, last_sequence_num, command_buf,
                     executed, connected, uplink, losses, shutdowns>>
  BY DEF GroundReceive, aircraftVars
<1> DEFINE acked == sending \in Commands /\ Head(downlink) = SequenceNum(sending)
<1>2. sending' = IF acked THEN sending + 1 ELSE sending
  BY DEF GroundReceive
<1>3. TypeOK /\ Done \in Nat /\ sending \in Nat \ {0} /\ Done' = Done
  BY <1>1, Types DEF LinkInv, Done
<1>4. /\ downlink' \in Seq(0 .. SequenceNumbers) /\ Len(downlink) \in Nat \ {0}
      /\ DOMAIN downlink = 1 .. Len(downlink) /\ DOMAIN downlink' = 1 .. Len(downlink) - 1
      /\ Head(downlink) = downlink[1]
      /\ \A i \in 1 .. Len(downlink) - 1 : downlink'[i] = downlink[i + 1]
  BY <1>1, <1>3, HeadTailProperties DEF TypeOK
<1>5. acked => Done = sending
  <2>1. SUFFICES ASSUME acked, Done = sending - 1 PROVE FALSE
    BY DEF LinkInv
  <2>2. Reports(downlink[1], sending - 1)
    BY <1>4, <2>1 DEF LinkInv, DownlinkInv
  <2>3. downlink[1] = SequenceNum(sending) /\ SequenceNum(sending) # 0
    BY <1>3, <1>4, <2>1, NumbersDiffer
  <2>4. sending - 1 \in Nat \ {0} /\ SequenceNum(sending - 1) = SequenceNum(sending)
    BY <1>3, <2>2, <2>3 DEF Reports
  <2>5. QED
    BY <1>3, <2>4, NumbersDiffer
<1>6. sending' \in 1 .. MaxCommands + 1 /\ sending <= sending' /\ sending' \in Nat
  <2>1. acked => sending \in 1 .. MaxCommands
    BY DEF Commands
  <2>2. QED
    BY <1>2, <1>3, <2>1, BoundsAssumption DEF TypeOK
<1>7. TypeOK'
  BY <1>1, <1>3, <1>4, <1>6 DEF TypeOK
<1>8. UplinkInv'
  BY <1>1, <1>6, SameUplink
<1>9. DownlinkInv'
  <2>1. CASE acked
    <3>1. \A i \in DOMAIN downlink' : Reports(downlink'[i], Done)
      <4>1. TAKE i \in DOMAIN downlink'
      <4>2. 1 \in DOMAIN downlink /\ i + 1 \in DOMAIN downlink /\ 1 < i + 1
        BY <1>4
      <4>3. Reports(downlink[i + 1], sending)
        BY <1>4, <2>1, <4>2 DEF LinkInv, DownlinkInv
      <4>4. QED
        BY <1>4, <1>5, <2>1, <4>3
    <3>2. SequenceNum(sending + 1) \in 1 .. SequenceNumbers /\ SequenceNum(sending + 1) # SequenceNum(sending)
      BY <1>3, NumbersDiffer
    <3>3. \A i \in DOMAIN downlink' : downlink'[i] # SequenceNum(sending + 1)
      BY <1>5, <2>1, <3>1, <3>2 DEF Reports
    <3>4. sending' = sending + 1
      BY <1>2, <2>1
    <3>5. QED
      BY <1>3, <3>1, <3>3, <3>4 DEF DownlinkInv, Reports
  <2>2. CASE ~acked
    <3>1. sending' = sending
      BY <1>2, <2>2
    <3>2. \A i \in DOMAIN downlink' : i + 1 \in DOMAIN downlink /\ downlink'[i] = downlink[i + 1]
      BY <1>4
    <3>3. \A i \in DOMAIN downlink' : Reports(downlink'[i], Done) \/ Reports(downlink'[i], sending - 1)
      BY <3>2 DEF LinkInv, DownlinkInv
    <3>4. \A i, j \in DOMAIN downlink' :
            i < j /\ downlink'[i] = SequenceNum(sending) => Reports(downlink'[j], sending)
      <4>1. TAKE i, j \in DOMAIN downlink'
      <4>2. HAVE i < j /\ downlink'[i] = SequenceNum(sending)
      <4>3. i + 1 < j + 1
        BY <1>4, <4>2
      <4>4. QED
        BY <3>2, <4>2, <4>3 DEF LinkInv, DownlinkInv
    <3>5. QED
      BY <1>3, <3>1, <3>3, <3>4 DEF DownlinkInv, Reports
  <2>3. QED
    BY <2>1, <2>2
<1>10. Done' \in {sending' - 1, sending'}
  BY <1>2, <1>3, <1>5 DEF LinkInv
<1>11. QED
  BY <1>1, <1>2, <1>3, <1>5, <1>7, <1>8, <1>9, <1>10 DEF LinkInv, Reports

-----------------------------------------------------------------------------
(* The steps of the aircraft *)

LEMMA StatusKeeps ==
  ASSUME LinkInv, StatusArrives
  PROVE  LinkInv'
<1> DEFINE num == Int8(link_sequence_num)
           n == Len(downlink)
<1>1. /\ downlink' = Append(downlink, num)
      /\ UNCHANGED <<link_type, last_sequence_num, command_buf, executed, uplink, losses,
                     shutdowns, sending>>
      /\ link_open' \in BOOLEAN /\ connected' \in BOOLEAN
      /\ link_sequence_num' \in {link_sequence_num, 0}
  BY DEF StatusArrives, Open, LinkInv, TypeOK
<1>2. TypeOK /\ Done \in Nat /\ sending \in Nat \ {0} /\ Done' = Done
  BY <1>1, Types DEF LinkInv, Done
<1>3. num = link_sequence_num /\ num \in 0 .. SequenceNumbers
  BY <1>2, NumberFits DEF TypeOK
<1> HIDE DEF num
<1>4. /\ downlink' \in Seq(0 .. SequenceNumbers) /\ n \in Nat
      /\ DOMAIN downlink = 1 .. n /\ DOMAIN downlink' = 1 .. n + 1
      /\ \A i \in 1 .. n : downlink'[i] = downlink[i]
      /\ downlink'[n + 1] = num
  BY <1>1, <1>2, <1>3, AppendProperties DEF TypeOK
<1>5. TypeOK'
  BY <1>1, <1>2, <1>4, NumbersAssumption DEF TypeOK
<1>6. UplinkInv'
  BY <1>1, <1>2, SameUplink
<1>7. DownlinkInv'
  <2>1. \A i \in DOMAIN downlink' : Reports(downlink'[i], Done) \/ Reports(downlink'[i], sending - 1)
    <3>1. TAKE i \in DOMAIN downlink'
    <3>2. CASE i = n + 1
      BY <1>3, <1>4, <3>2 DEF LinkInv
    <3>3. CASE i # n + 1
      BY <1>4, <3>3 DEF LinkInv, DownlinkInv
    <3>4. QED
      BY <3>2, <3>3
  <2>2. \A i, j \in DOMAIN downlink' :
          i < j /\ downlink'[i] = SequenceNum(sending) => Reports(downlink'[j], sending)
    <3>1. TAKE i, j \in DOMAIN downlink'
    <3>2. HAVE i < j /\ downlink'[i] = SequenceNum(sending)
    <3>3. i \in DOMAIN downlink /\ downlink[i] = SequenceNum(sending)
      BY <1>4, <3>2
    <3>4. CASE j # n + 1
      BY <1>4, <3>2, <3>3, <3>4 DEF LinkInv, DownlinkInv
    <3>5. CASE j = n + 1
      <4>1. Reports(num, Done)
        BY <1>3 DEF LinkInv
      <4>2. CASE Done = sending
        BY <1>4, <3>5, <4>1, <4>2
      <4>3. CASE Done = sending - 1
        <5>1. Reports(SequenceNum(sending), sending - 1)
          BY <3>3, <4>3 DEF LinkInv, DownlinkInv
        <5>2. SequenceNum(sending) # 0
          BY <1>2, NumbersDiffer
        <5>3. sending - 1 \in Nat \ {0} /\ SequenceNum(sending - 1) = SequenceNum(sending)
          BY <1>2, <5>1, <5>2 DEF Reports
        <5>4. QED
          BY <1>2, <5>3, NumbersDiffer
      <4>4. QED
        BY <4>2, <4>3 DEF LinkInv
    <3>6. QED
      BY <3>4, <3>5
  <2>3. QED
    BY <1>1, <1>2, <2>1, <2>2 DEF DownlinkInv, Reports
<1>8. QED
  BY <1>1, <1>2, <1>5, <1>6, <1>7 DEF LinkInv, Reports

LEMMA OtherKeeps ==
  ASSUME LinkInv, OtherPacket \/ ServerShutdown
  PROVE  LinkInv'
<1>1. /\ UNCHANGED <<link_type, last_sequence_num, command_buf, executed, uplink, downlink,
                     losses, sending>>
      /\ link_open' \in BOOLEAN /\ connected' \in BOOLEAN
      /\ link_sequence_num' \in {link_sequence_num, 0}
      /\ shutdowns' \in 0 .. MaxShutdowns
  <2>1. /\ link_open \in BOOLEAN /\ connected \in BOOLEAN
        /\ shutdowns \in 0 .. MaxShutdowns /\ MaxShutdowns \in Nat
    BY BoundsAssumption DEF LinkInv, TypeOK
  <2>2. CASE OtherPacket
    <3>1. UNCHANGED <<link_type, last_sequence_num, command_buf, executed, uplink, downlink,
                      losses, shutdowns, sending>>
      BY <2>2 DEF OtherPacket
    <3>2. link_sequence_num' \in {link_sequence_num, 0}
      BY <2>2 DEF OtherPacket, Open
    <3>3. link_open' \in BOOLEAN
      BY <2>2 DEF OtherPacket, Open
    <3>4. connected' \in BOOLEAN
      BY <2>1, <2>2 DEF OtherPacket, Open
    <3>5. QED
      BY <2>1, <3>1, <3>2, <3>3, <3>4
  <2>3. CASE ServerShutdown
    <3>1. /\ UNCHANGED <<link_type, last_sequence_num, command_buf, executed, uplink, downlink,
                         losses, sending>>
          /\ UNCHANGED <<link_open, link_sequence_num>>
      BY <2>3 DEF ServerShutdown, aircraftVars
    <3>2. connected' \in BOOLEAN
      BY <2>3 DEF ServerShutdown
    <3>3. shutdowns' \in 0 .. MaxShutdowns
      BY <2>1, <2>3 DEF ServerShutdown
    <3>4. link_open' \in BOOLEAN
      BY <2>1, <3>1
    <3>5. QED
      BY <3>1, <3>2, <3>3, <3>4
  <2>4. QED
    BY <2>2, <2>3
<1>2. TypeOK /\ sending \in Nat /\ Done' = Done
  BY <1>1, Types DEF LinkInv, Done
<1>3. TypeOK'
  BY <1>1, <1>2, NumbersAssumption DEF TypeOK
<1>4. UplinkInv' /\ DownlinkInv'
  BY <1>1, <1>2, SameUplink, SameDownlink
<1>5. QED
  BY <1>1, <1>2, <1>3, <1>4 DEF LinkInv, Reports

\* A part of a line is kept, in order.
LEMMA PartKeeps ==
  ASSUME LinkInv, ReadPart
  PROVE  LinkInv'
<1> DEFINE m == Len(command_buf)
           n == Len(uplink)
<1>1. /\ command_buf' = command_buf \o uplink /\ uplink' = << >>
      /\ UNCHANGED <<link_type, link_open, link_sequence_num, last_sequence_num, executed,
                     connected, downlink, losses, shutdowns, sending>>
      /\ EndOfLine = 0 /\ n < Room
  BY DEF ReadPart
<1>2. TypeOK /\ m \in Nat /\ n \in Nat /\ sending \in Nat /\ BufSize \in Nat /\ Done' = Done
  BY <1>1, Types DEF LinkInv, Done
<1> DEFINE Kept == Bytes \ {Newline}
<1>3. command_buf \in Seq(Kept) /\ uplink \in Seq(Kept)
  <2>1. \A k \in 1 .. n : uplink[k] \in Kept
    BY <1>1, <1>2, EndIsNewline DEF TypeOK, Room
  <2>2. uplink \in [1 .. n -> Kept]
    BY <1>2, <2>1 DEF TypeOK
  <2>3. uplink \in Seq(Kept)
    BY <1>2, <2>2, SeqDef
  <2>4. QED
    BY <1>2, <2>3 DEF TypeOK
<1> HIDE DEF Kept
<1>4. /\ command_buf' \in Seq(Kept) /\ Len(command_buf') = m + n
      /\ \A i \in 1 .. m + n : command_buf'[i] = IF i <= m THEN command_buf[i] ELSE uplink[i - m]
  BY <1>1, <1>3, ConcatProperties
<1>5. TypeOK'
  <2>1. uplink' \in Seq(Bytes)
    BY <1>1
  <2>2. m + n < BufSize
    BY <1>1, <1>2 DEF Room
  <2>3. QED
    BY <1>1, <1>2, <1>4, <2>1, <2>2 DEF TypeOK, Kept
<1>6. \A i \in DOMAIN command_buf' : Under(command_buf'[i])
  <2>1. DOMAIN command_buf' = 1 .. m + n /\ DOMAIN command_buf = 1 .. m /\ DOMAIN uplink = 1 .. n
    BY <1>2, <1>3, <1>4
  <2>2. TAKE i \in DOMAIN command_buf'
  <2> HIDE DEF m, n
  <2>3. CASE i <= m
    <3>1. i \in DOMAIN command_buf /\ command_buf'[i] = command_buf[i]
      BY <1>2, <1>4, <2>1, <2>3
    <3>2. QED
      BY <3>1 DEF LinkInv, UplinkInv
  <2>4. CASE ~(i <= m)
    <3>1. i - m \in DOMAIN uplink /\ command_buf'[i] = uplink[i - m]
      BY <1>2, <1>4, <2>1, <2>4
    <3>2. QED
      BY <3>1 DEF LinkInv, UplinkInv
  <2>5. QED
    BY <2>3, <2>4
<1>7. UplinkInv'
  BY <1>1, <1>2, <1>6 DEF UplinkInv, Under
<1>8. DownlinkInv'
  BY <1>1, SameDownlink
<1>9. QED
  BY <1>1, <1>2, <1>5, <1>7, <1>8 DEF LinkInv, Reports

\* What is left of the uplink after its first bytes.
LEMMA RestIs ==
  ASSUME TypeOK, NEW k \in Nat \ {0}, uplink' = SubSeq(uplink, k + 1, Len(uplink))
  PROVE  /\ uplink' \in Seq(Bytes)
         /\ \A i \in DOMAIN uplink' : i + k \in DOMAIN uplink /\ uplink'[i] = uplink[i + k]
<1> DEFINE n == Len(uplink)
<1>1. uplink \in Seq(Bytes) /\ n \in Nat /\ DOMAIN uplink = 1 .. n
  BY Types
<1>2. /\ SubSeq(uplink, k + 1, n) \in Seq(Bytes)
      /\ Len(SubSeq(uplink, k + 1, n)) = IF k + 1 <= n THEN n - (k + 1) + 1 ELSE 0
      /\ \A i \in 1 .. n - (k + 1) + 1 : SubSeq(uplink, k + 1, n)[i] = uplink[(k + 1) + i - 1]
  <2>1. \A i \in k + 1 .. n : uplink[i] \in Bytes
    BY <1>1
  <2>2. k + 1 \in Int /\ n \in Int
    BY <1>1
  <2>3. QED
    BY <2>1, <2>2, SubSeqProperties
<1>3. uplink' \in Seq(Bytes) /\ DOMAIN uplink' = 1 .. Len(uplink')
  BY <1>2
<1>4. \A i \in DOMAIN uplink' : i \in 1 .. n - k
  <2>1. Len(uplink') = IF k + 1 <= n THEN n - (k + 1) + 1 ELSE 0
    BY <1>2
  <2> DEFINE l == Len(uplink')
  <2>2. l = IF k + 1 <= n THEN n - k ELSE 0
    BY <1>1, <2>1
  <2>3. DOMAIN uplink' = 1 .. l
    BY <1>3
  <2> HIDE DEF l, n
  <2>4. \A i \in 1 .. l : i \in 1 .. n - k
    BY <2>2
  <2>5. QED
    BY <2>3, <2>4
<1>5. ASSUME NEW i \in DOMAIN uplink'
      PROVE  i + k \in DOMAIN uplink /\ uplink'[i] = uplink[i + k]
  <2>1. i \in 1 .. n - k
    BY <1>4
  <2>2. uplink'[i] = uplink[(k + 1) + i - 1]
    <3>1. n - (k + 1) + 1 = n - k
      BY <1>1
    <3>2. QED
      BY <1>2, <2>1, <3>1
  <2> HIDE DEF n
  <2>3. (k + 1) + i - 1 = i + k /\ i + k \in 1 .. n
    BY <1>1, <2>1
  <2>4. QED
    BY <1>1, <2>2, <2>3
<1>6. QED
  BY <1>3, <1>5

LEMMA OverflowKeeps ==
  ASSUME LinkInv, ReadOverflow
  PROVE  LinkInv'
<1> DEFINE k == Room + 1
<1>1. /\ command_buf' = << >> /\ uplink' = SubSeq(uplink, k + 1, Len(uplink))
      /\ UNCHANGED <<link_type, link_open, link_sequence_num, last_sequence_num, executed,
                     connected, downlink, losses, shutdowns, sending>>
  <2>1. Room + 2 = k + 1
    BY Types DEF LinkInv, Room
  <2>2. QED
    BY <2>1 DEF ReadOverflow
<1>2. TypeOK /\ Done \in Nat /\ sending \in Nat /\ BufSize \in Nat \ {0} /\ Done' = Done
  BY <1>1, Types DEF LinkInv, Done
<1>3. k \in Nat \ {0}
  BY <1>2, Types DEF Room, TypeOK
<1> HIDE DEF k
<1>4. /\ uplink' \in Seq(Bytes)
      /\ \A i \in DOMAIN uplink' : i + k \in DOMAIN uplink /\ uplink'[i] = uplink[i + k]
      /\ DOMAIN uplink' \subseteq Nat
  <2>1. /\ uplink' \in Seq(Bytes)
        /\ \A i \in DOMAIN uplink' : i + k \in DOMAIN uplink /\ uplink'[i] = uplink[i + k]
    BY <1>1, <1>2, <1>3, RestIs
  <2>2. DOMAIN uplink' = 1 .. Len(uplink')
    BY <2>1
  <2>3. QED
    BY <2>1, <2>2
<1>5. TypeOK'
  BY <1>1, <1>2, <1>4 DEF TypeOK
<1>6. \A i \in DOMAIN uplink' : Under(uplink'[i])
  BY <1>4 DEF LinkInv, UplinkInv
<1>7. \A i, j \in DOMAIN uplink' : i < j => Before(uplink'[i], uplink'[j])
  <2>1. TAKE i, j \in DOMAIN uplink'
  <2>2. HAVE i < j
  <2>3. i + k < j + k
    BY <1>3, <1>4, <2>2
  <2>4. QED
    BY <1>4, <2>3 DEF LinkInv, UplinkInv
<1>8. UplinkInv'
  <2>1. command_buf' = << >> /\ sending' = sending
    BY <1>1
  <2>2. QED
    BY <1>2, <1>6, <1>7, <2>1 DEF UplinkInv, Under, Before
<1>9. DownlinkInv'
  BY <1>1, SameDownlink
<1>10. QED
  BY <1>1, <1>2, <1>5, <1>8, <1>9 DEF LinkInv, Reports

\* What the end of a line leaves: the bytes after it, which are of no older command.
LEMMA TakeLeaves ==
  ASSUME LinkInv, TakeLine
  PROVE  /\ command_buf' = << >> /\ uplink' \in Seq(Bytes)
         /\ \A i \in DOMAIN uplink' : Under(uplink'[i])
         /\ \A i, j \in DOMAIN uplink' : i < j => Before(uplink'[i], uplink'[j])
         /\ \A c \in Commands : ReadLine = Line(c) =>
              /\ Done <= c /\ c <= sending
              /\ \A i \in DOMAIN uplink' : uplink'[i].cmd = 0 \/ c <= uplink'[i].cmd
<1> DEFINE e == EndOfLine
<1>1. command_buf' = << >> /\ uplink' = SubSeq(uplink, e + 1, Len(uplink)) /\ e # 0
  BY DEF TakeLine
<1>2. TypeOK
  BY DEF LinkInv
<1>3. e \in 1 .. Len(uplink) /\ Len(uplink) \in Nat /\ DOMAIN uplink = 1 .. Len(uplink)
  BY <1>1, <1>2, EndIsNewline, Types
<1> HIDE DEF e
<1>4. /\ uplink' \in Seq(Bytes)
      /\ \A i \in DOMAIN uplink' : i + e \in DOMAIN uplink /\ uplink'[i] = uplink[i + e]
      /\ DOMAIN uplink' \subseteq Nat \ {0}
  <2>1. uplink' \in Seq(Bytes)
        /\ \A i \in DOMAIN uplink' : i + e \in DOMAIN uplink /\ uplink'[i] = uplink[i + e]
    BY <1>1, <1>2, <1>3, RestIs
  <2>2. DOMAIN uplink' = 1 .. Len(uplink')
    BY <2>1
  <2>3. QED
    BY <2>1, <2>2
<1>5. \A i \in DOMAIN uplink' : Under(uplink'[i])
  BY <1>4 DEF LinkInv, UplinkInv
<1>6. \A i, j \in DOMAIN uplink' : i < j => Before(uplink'[i], uplink'[j])
  <2>1. TAKE i, j \in DOMAIN uplink'
  <2>2. HAVE i < j
  <2>3. i + e < j + e
    BY <1>3, <1>4, <2>2
  <2>4. QED
    BY <1>4, <2>3 DEF LinkInv, UplinkInv
<1>7. ASSUME NEW c \in Commands, ReadLine = Line(c)
      PROVE  /\ Done <= c /\ c <= sending
             /\ \A i \in DOMAIN uplink' : uplink'[i].cmd = 0 \/ c <= uplink'[i].cmd
  <2> DEFINE part == SubSeq(uplink, 1, e - 1)
  <2>1. c \in Nat \ {0} /\ Len(Line(c)) # 0 /\ Line(c)[1].cmd = c
    BY LineIs, BytesHaveCommands
  <2>2. /\ command_buf \in Seq(Bytes) /\ uplink \in Seq(Bytes)
        /\ DOMAIN command_buf = 1 .. Len(command_buf) /\ Len(command_buf) \in Nat
    BY <1>2, Types
  <2>3. /\ part \in Seq(Bytes) /\ Len(part) = e - 1
        /\ \A i \in 1 .. e - 1 : part[i] = uplink[i]
    BY <1>3, <2>2
  <2>4. Line(c) = command_buf \o part
    BY <1>7 DEF ReadLine, e
  <2> HIDE DEF part
  <2>5. /\ Len(command_buf \o part) = Len(command_buf) + Len(part)
        /\ \A i \in 1 .. Len(command_buf) + Len(part) :
             (command_buf \o part)[i] =
               IF i <= Len(command_buf) THEN command_buf[i] ELSE part[i - Len(command_buf)]
    BY <2>2, <2>3, ConcatProperties
  <2>6. CASE command_buf # << >>
    <3>1. 1 \in DOMAIN command_buf /\ command_buf[1].cmd = c
      BY <1>3, <2>1, <2>2, <2>3, <2>4, <2>5, <2>6
    <3>2. Under(command_buf[1]) /\ \A i \in DOMAIN uplink : Before(command_buf[1], uplink[i])
      BY <3>1 DEF LinkInv, UplinkInv
    <3>3. QED
      BY <1>4, <2>1, <3>1, <3>2 DEF Under, Before
  <2>7. CASE command_buf = << >>
    <3>1. Len(command_buf) = 0
      BY <2>7
    <3>2. 1 \in 1 .. e - 1
      BY <1>3, <2>1, <2>3, <2>4, <2>5, <3>1
    <3>3. uplink[1].cmd = c /\ 1 \in DOMAIN uplink
      BY <1>3, <2>1, <2>3, <2>4, <2>5, <3>1, <3>2
    <3>4. Under(uplink[1]) /\ \A i \in DOMAIN uplink : 1 < i => Before(uplink[1], uplink[i])
      BY <3>3 DEF LinkInv, UplinkInv
    <3>5. \A i \in DOMAIN uplink' : 1 < i + e
      BY <1>3, <1>4
    <3>6. QED
      BY <1>4, <2>1, <3>3, <3>4, <3>5 DEF Under, Before
  <2>8. QED
    BY <2>6, <2>7
<1>8. QED
  BY <1>1, <1>4, <1>5, <1>6, <1>7

\* A line that changes nothing but the buffers.
LEMMA IgnoreKeeps ==
  ASSUME LinkInv, TakeLine, UNCHANGED <<link_sequence_num, last_sequence_num, executed>>
  PROVE  LinkInv'
<1>1. UNCHANGED <<link_type, link_open, connected, downlink, losses, shutdowns, sending>>
  BY DEF TakeLine
<1>2. TypeOK /\ Done \in Nat /\ sending \in Nat /\ BufSize \in Nat \ {0} /\ Done' = Done
  BY Types DEF LinkInv, Done
<1>3. TypeOK'
  BY <1>1, <1>2, TakeLeaves DEF TypeOK
<1>4. UplinkInv'
  BY <1>1, <1>2, TakeLeaves DEF UplinkInv, Under, Before
<1>5. DownlinkInv'
  BY <1>1, SameDownlink
<1>6. QED
  BY <1>1, <1>2, <1>3, <1>4, <1>5 DEF LinkInv, Reports

\* A command that is executed is the one being sent, and was not executed before.
LEMMA ExecuteKeeps ==
  ASSUME LinkInv, NEW c \in Commands, TakeLine, ReadLine = Line(c),
         SequenceNum(c) # last_sequence_num, ExecuteCommand(c)
  PROVE  /\ LinkInv'
         /\ Done = sending - 1 /\ executed' = Append(executed, sending) /\ sending' = sending
<1>1. UNCHANGED <<link_type, link_open, connected, downlink, losses, shutdowns, sending>>
  BY DEF TakeLine
<1>2. /\ link_sequence_num' = SequenceNum(c) /\ last_sequence_num' = SequenceNum(c)
      /\ executed' = Append(executed, c)
  BY DEF ExecuteCommand
<1>3. /\ TypeOK /\ Done \in Nat /\ sending \in Nat \ {0} /\ BufSize \in Nat \ {0}
      /\ c \in Nat \ {0}
  BY Types, BytesHaveCommands DEF LinkInv
<1>4. Done <= c /\ c <= sending
  BY TakeLeaves
<1>5. c # Done
  <2>1. SUFFICES ASSUME c = Done PROVE FALSE
    OBVIOUS
  <2>2. last_sequence_num = SequenceNum(c)
    BY <1>3, <2>1 DEF LinkInv
  <2>3. QED
    BY <2>2
<1>6. Done = sending - 1 /\ c = sending
  BY <1>3, <1>4, <1>5 DEF LinkInv
<1>7. executed' \in Seq(Commands) /\ Done' = sending
  <2>1. executed \in Seq(Commands)
    BY <1>3 DEF TypeOK
  <2>2. executed' \in Seq(Commands) /\ Len(executed') = Len(executed) + 1
    BY <1>2, <2>1
  <2>3. QED
    BY <1>3, <1>6, <2>2 DEF Done
<1>8. SequenceNum(c) \in 1 .. SequenceNumbers
  BY <1>3, NumbersDiffer
<1>9. TypeOK'
  BY <1>1, <1>2, <1>3, <1>7, <1>8, NumbersAssumption, TakeLeaves DEF TypeOK
<1>10. UplinkInv'
  <2>1. \A i \in DOMAIN uplink' : uplink'[i].cmd = 0 \/ uplink'[i].cmd = sending
    <3>1. TAKE i \in DOMAIN uplink'
    <3>2. uplink'[i].cmd \in Nat
      BY TakeLeaves, BytesHaveCommands
    <3>3. QED
      BY <1>3, <1>6, <3>2, TakeLeaves DEF Under
  <2>2. \A i \in DOMAIN uplink' :
          uplink'[i].cmd = 0 \/ (Done' <= uplink'[i].cmd /\ uplink'[i].cmd <= sending')
    BY <1>1, <1>3, <1>7, <2>1
  <2>3. QED
    BY <2>2, TakeLeaves DEF UplinkInv, Under, Before
<1>11. DownlinkInv'
  <2>1. \A i \in DOMAIN downlink : Reports(downlink[i], sending - 1)
    BY <1>6 DEF LinkInv, DownlinkInv
  <2>2. \A i \in DOMAIN downlink : downlink[i] # SequenceNum(sending)
    <3>1. TAKE i \in DOMAIN downlink
    <3>2. SUFFICES ASSUME downlink[i] = SequenceNum(sending) PROVE FALSE
      OBVIOUS
    <3>3. SequenceNum(sending) # 0
      BY <1>6, <1>8
    <3>4. sending - 1 \in Nat \ {0} /\ SequenceNum(sending - 1) = SequenceNum(sending)
      BY <1>3, <2>1, <3>2, <3>3 DEF Reports
    <3>5. QED
      BY <1>3, <3>4, NumbersDiffer
  <2>3. QED
    BY <1>1, <2>1, <2>2 DEF DownlinkInv, Reports
<1>12. QED
  BY <1>1, <1>2, <1>3, <1>6, <1>7, <1>9, <1>10, <1>11 DEF LinkInv, Reports

LEMMA ReadKeeps ==
  ASSUME LinkInv, Read
  PROVE  /\ LinkInv'
         /\ sending' = sending
         /\ executed' # executed => Done = sending - 1 /\ executed' = Append(executed, sending)
<1>1. CASE ReadPart \/ ReadOverflow
  <2>1. sending' = sending /\ executed' = executed
    BY <1>1 DEF ReadPart, ReadOverflow
  <2>2. QED
    BY <1>1, <2>1, PartKeeps, OverflowKeeps
<1>2. CASE RejectLine
  <2>1. TakeLine /\ UNCHANGED <<link_sequence_num, last_sequence_num, executed>>
    BY <1>2 DEF RejectLine
  <2>2. sending' = sending
    BY <2>1 DEF TakeLine
  <2>3. QED
    BY <2>1, <2>2, IgnoreKeeps
<1>3. ASSUME NEW c \in Commands, ReadCommand(c)
      PROVE  /\ LinkInv'
             /\ sending' = sending
             /\ executed' # executed => Done = sending - 1 /\ executed' = Append(executed, sending)
  <2>1. TakeLine /\ ReadLine = Line(c) /\ sending' = sending
    BY <1>3 DEF ReadCommand, TakeLine
  <2>2. CASE SequenceNum(c) # last_sequence_num
    <3>1. ExecuteCommand(c)
      BY <1>3, <2>2 DEF ReadCommand
    <3>2. QED
      BY <2>1, <2>2, <3>1, ExecuteKeeps
  <2>3. CASE SequenceNum(c) = last_sequence_num
    <3>1. UNCHANGED <<link_sequence_num, last_sequence_num, executed>>
      BY <1>3, <2>3 DEF ReadCommand
    <3>2. QED
      BY <2>1, <3>1, IgnoreKeeps
  <2>4. QED
    BY <2>2, <2>3
<1>4. QED
  BY <1>1, <1>2, <1>3 DEF Read

-----------------------------------------------------------------------------
(* The invariant and the refinement *)

LEMMA LinkStarts ==
  ASSUME Init
  PROVE  LinkInv /\ Done = 0 /\ sending = 1
<1>1. /\ link_type \in LinkTypes /\ link_open \in BOOLEAN /\ connected = link_open
      /\ link_sequence_num = 0 /\ last_sequence_num = -1
      /\ command_buf = << >> /\ uplink = << >> /\ downlink = << >>
      /\ sending = 1 /\ losses = 0 /\ shutdowns = 0 /\ executed = << >>
  BY DEF Init
<1>2. Done = 0
  BY <1>1 DEF Done
<1>3. TypeOK
  BY <1>1, BoundsAssumption, NumbersAssumption, LineAssumption DEF TypeOK
<1>4. UplinkInv /\ DownlinkInv
  BY <1>1 DEF UplinkInv, DownlinkInv
<1>5. QED
  BY <1>1, <1>2, <1>3, <1>4 DEF LinkInv, Reports

LEMMA LinkStutters ==
  ASSUME LinkInv, UNCHANGED vars
  PROVE  LinkInv' /\ UNCHANGED <<executed, sending>>
<1>1. UNCHANGED <<link_type, link_open, link_sequence_num, last_sequence_num, command_buf,
                  executed, connected, uplink, downlink, losses, shutdowns, sending>>
  BY DEF vars, aircraftVars, linkVars
<1>2. TypeOK' /\ Done' = Done /\ sending \in Nat
  BY <1>1, Types DEF LinkInv, TypeOK, Done
<1>3. UplinkInv' /\ DownlinkInv'
  BY <1>1, <1>2, SameUplink, SameDownlink
<1>4. QED
  BY <1>1, <1>2, <1>3 DEF LinkInv, Reports

\* A step executes the command being sent, or acknowledges it, or shows nothing.
LEMMA LinkStep ==
  ASSUME LinkInv, Next
  PROVE  /\ LinkInv'
         /\ \/ UNCHANGED <<executed, sending>>
            \/ Done = sending - 1 /\ executed' = Append(executed, sending) /\ sending' = sending
            \/ Done = sending /\ sending' = sending + 1 /\ executed' = executed
<1>1. CASE GroundReceive
  BY <1>1, ReceiveKeeps
<1>2. CASE Read
  BY <1>2, ReadKeeps
<1>3. CASE GroundSend
  BY <1>3, SendKeeps DEF GroundSend, aircraftVars
<1>4. ASSUME NEW i \in 1 .. Len(uplink), NEW j \in 1 .. Len(uplink), LoseBytes(i, j)
      PROVE  LinkInv' /\ UNCHANGED <<executed, sending>>
  BY <1>4, LoseKeeps DEF LoseBytes, aircraftVars
<1>5. CASE ServerShutdown \/ OtherPacket
  BY <1>5, OtherKeeps DEF ServerShutdown, OtherPacket, aircraftVars
<1>6. CASE StatusArrives
  BY <1>6, StatusKeeps DEF StatusArrives
<1>7. QED
  BY <1>1, <1>2, <1>3, <1>4, <1>5, <1>6 DEF Next

\* Only two neighbours are under way at any time, in order in both directions.
THEOREM Link_Invariant == Spec => []LinkInv
<1>1. Init => LinkInv
  BY LinkStarts
<1>2. LinkInv /\ [Next]_vars => LinkInv'
  BY LinkStep, LinkStutters
<1>3. QED
  BY <1>1, <1>2, PTL DEF Spec

\* Whatever bytes are lost and however often the link is opened again, every command is
\* executed in the order given, exactly once, and acknowledged only when it has been: the
\* remote link implements CommandDelivery.
THEOREM Exactly_Once == Spec => ExactlyOnce
<1>1. Init => Delivery!Init
  <2> SUFFICES ASSUME Init PROVE Delivery!Init
    OBVIOUS
  <2>1. executed = << >> /\ sending = 1
    BY DEF Init
  <2>2. QED
    BY <2>1 DEF Delivery!Init
<1>2. LinkInv /\ [Next]_vars => [Delivery!Next]_<<executed, sending - 1>>
  <2> SUFFICES ASSUME LinkInv, [Next]_vars
               PROVE  [Delivery!Next]_<<executed, sending - 1>>
    OBVIOUS
  <2>1. sending \in Nat \ {0}
    BY Types DEF LinkInv
  <2>2. \/ UNCHANGED <<executed, sending>>
        \/ Done = sending - 1 /\ executed' = Append(executed, sending) /\ sending' = sending
        \/ Done = sending /\ sending' = sending + 1 /\ executed' = executed
    BY LinkStep, LinkStutters
  <2>3. CASE UNCHANGED <<executed, sending>>
    BY <2>3
  <2>4. CASE Done = sending - 1 /\ executed' = Append(executed, sending) /\ sending' = sending
    <3>1. (sending - 1) + 1 = sending
      BY <2>1
    <3>2. Delivery!Execute
      BY <2>4, <3>1 DEF Delivery!Execute, Done
    <3>3. QED
      BY <3>2 DEF Delivery!Next
  <2>5. CASE Done = sending /\ sending' = sending + 1 /\ executed' = executed
    <3>1. sending - 1 < Len(executed) /\ sending' - 1 = (sending - 1) + 1
      BY <2>1, <2>5 DEF Done
    <3>2. Delivery!Acknowledge
      BY <2>5, <3>1 DEF Delivery!Acknowledge
    <3>3. QED
      BY <3>2 DEF Delivery!Next
  <2>6. QED
    BY <2>2, <2>3, <2>4, <2>5
<1>3. QED
  BY <1>1, <1>2, Link_Invariant, PTL DEF Spec, ExactlyOnce, Delivery!Spec

=============================================================================
