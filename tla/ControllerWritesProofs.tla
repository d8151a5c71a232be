----------------------- MODULE ControllerWritesProofs -----------------------
(***************************************************************************)
(* Proofs about ControllerWrites for every number of requests, of values   *)
(* and of queued commands.  RecordIsObeyed is not inductive: whether the   *)
(* record that is still to come is that of the last command depends on     *)
(* which request the worker answers.  Awaited ties the queue to the        *)
(* requests that wait, and RoundTrip the bytes to the value.               *)
(***************************************************************************)
EXTENDS ControllerWrites, TLAPS

-----------------------------------------------------------------------------
(* The integer formats: each gives back the number it was given, for every   *)
(* value, those with four bytes included, whose numbers are too large for    *)
(* TLC.                                                                      *)

\* The formats there are.
LEMMA FormatKinds ==
    ASSUME NEW k \in DOMAIN FORMATS
    PROVE  /\ FORMATS[k].size \in {1, 2, 4}
           /\ FORMATS[k].signed \in BOOLEAN
           /\ FORMATS[k].big \in BOOLEAN
  <1>1. k \in {"uint8", "int8", "uint16_le", "int16_le", "uint16_be", "int16_be",
              "uint32_le", "int32_le"}
    BY DEF FORMATS
  <1>2. /\ FORMATS.uint8 = Kind(1, FALSE, FALSE) /\ FORMATS.int8 = Kind(1, TRUE, FALSE)
        /\ FORMATS.uint16_le = Kind(2, FALSE, FALSE) /\ FORMATS.int16_le = Kind(2, TRUE, FALSE)
        /\ FORMATS.uint16_be = Kind(2, FALSE, TRUE) /\ FORMATS.int16_be = Kind(2, TRUE, TRUE)
        /\ FORMATS.uint32_le = Kind(4, FALSE, FALSE) /\ FORMATS.int32_le = Kind(4, TRUE, FALSE)
    BY DEF FORMATS
  <1>3. \E n \in {1, 2, 4}, signed, big \in BOOLEAN : FORMATS[k] = Kind(n, signed, big)
    BY <1>1, <1>2
  <1> QED
    BY <1>3 DEF Kind

\* int() gives a whole number.
LEMMA TruncatedType == ASSUME NEW v \in Int PROVE Truncated(v) \in Int
  BY DEF Truncated

\* A number with 1, 2 or 4 digits to the base 256 is made of its digits.
LEMMA Digits1 == ASSUME NEW u \in 0 .. 255 PROVE (u \div 1) % 256 = u
  OBVIOUS

LEMMA Digits2 ==
    ASSUME NEW u \in Nat, u < 65536
    PROVE  ((u \div 1) % 256) + ((u \div 256) % 256) * 256 = u
  <1>1. u = 256 * (u \div 256) + (u % 256)
    OBVIOUS
  <1>2. u \div 256 \in 0 .. 255
    OBVIOUS
  <1>3. (u \div 256) % 256 = u \div 256
    BY <1>2
  <1>4. u \div 1 = u
    OBVIOUS
  <1> QED
    BY <1>1, <1>3, <1>4

LEMMA Digits4 ==
    ASSUME NEW u \in Nat, u < 65536 * 65536
    PROVE  ((u \div 1) % 256) + ((u \div 256) % 256) * 256
             + ((u \div 65536) % 256) * 65536 + ((u \div 16777216) % 256) * 16777216 = u
  <1>1. u = 256 * (u \div 256) + (u % 256)
    OBVIOUS
  <1>2. u \div 256 = 256 * (u \div 65536) + ((u \div 256) % 256)
    OBVIOUS
  <1>3. u \div 65536 = 256 * (u \div 16777216) + ((u \div 65536) % 256)
    OBVIOUS
  <1>4. u \div 16777216 \in 0 .. 255
    OBVIOUS
  <1>5. (u \div 16777216) % 256 = u \div 16777216
    BY <1>4
  <1>6. u \div 1 = u
    OBVIOUS
  <1> QED
    BY <1>1, <1>2, <1>3, <1>5, <1>6

\* The bytes of a number say that number, whatever the size and the byte order.
LEMMA Unpacked ==
    ASSUME NEW f, f.size \in {1, 2, 4}, f.signed \in BOOLEAN, f.big \in BOOLEAN,
           NEW n \in Int, Representable(n, f)
    PROVE  decode(Pack(n, f), f) = n /\ Pack(n, f) # Refused
  <1> DEFINE u == IF n < 0 THEN n + Span(f) ELSE n
             d(i) == (u \div Weight[i]) % 256
  <1>1. Span(f) \in Nat /\ u \in Nat /\ u < Span(f)
    BY DEF Span, Lowest, Representable
  <1>2. n = IF f.signed /\ u >= Span(f) \div 2 THEN u - Span(f) ELSE u
    BY DEF Span, Lowest, Representable
  <1>3. \A i \in 1 .. f.size : Place(i, f) \in 1 .. f.size /\ Place(Place(i, f), f) = i
    BY DEF Place
  <1>4. \A i \in 1 .. f.size : Pack(n, f)[Place(i, f)] = d(i)
    BY <1>3 DEF Pack
  <1>5. CASE f.size = 1
    <2>1. Pack(n, f)[Place(1, f)] * Weight[1] = u
      BY <1>1, <1>4, <1>5, Digits1 DEF Span, Weight
    <2> QED
      BY <1>2, <1>5, <2>1 DEF decode, Pack, Refused
  <1>6. CASE f.size = 2
    <2>1. Pack(n, f)[Place(1, f)] * Weight[1] + Pack(n, f)[Place(2, f)] * Weight[2] = u
      BY <1>1, <1>4, <1>6, Digits2 DEF Span, Weight
    <2> QED
      BY <1>2, <1>6, <2>1 DEF decode, Pack, Refused
  <1>7. CASE f.size = 4
    <2>1. Pack(n, f)[Place(1, f)] * Weight[1] + Pack(n, f)[Place(2, f)] * Weight[2]
            + Pack(n, f)[Place(3, f)] * Weight[3] + Pack(n, f)[Place(4, f)] * Weight[4] = u
      BY <1>1, <1>4, <1>7, Digits4 DEF Span, Weight
    <2> QED
      BY <1>2, <1>7, <2>1 DEF decode, Pack, Refused
  <1> QED
    BY <1>5, <1>6, <1>7

\* What is encoded is decoded to the number it was cut to, and a value is refused
\* exactly if the format does not have that number.
THEOREM RoundTrip ==
    ASSUME NEW k \in DOMAIN FORMATS, NEW v \in Int
    PROVE  /\ encode(v, FORMATS[k]) # Refused <=> Representable(Truncated(v), FORMATS[k])
           /\ encode(v, FORMATS[k]) # Refused
                => decode(encode(v, FORMATS[k]), FORMATS[k]) = Truncated(v)
  <1>1. Representable(Truncated(v), FORMATS[k])
            => /\ encode(v, FORMATS[k]) = Pack(Truncated(v), FORMATS[k])
               /\ Pack(Truncated(v), FORMATS[k]) # Refused
               /\ decode(Pack(Truncated(v), FORMATS[k]), FORMATS[k]) = Truncated(v)
    BY FormatKinds, TruncatedType, Unpacked DEF encode
  <1>2. ~Representable(Truncated(v), FORMATS[k]) => encode(v, FORMATS[k]) = Refused
    BY DEF encode
  <1> QED
    BY <1>1, <1>2

-----------------------------------------------------------------------------
(* The requests and the worker *)

\* A value a request goes on with is one the format takes; a command with a caller is
\* waited for, has the bytes of its value, and each caller has one.
Encodable == \A r \in Requests : pc[r] # "idle" => encode(val[r], Format) # Refused

Awaited ==
    /\ \A i \in 1..Len(queue) : queue[i].by # Nobody =>
          pc[queue[i].by] = "waiting" /\ queue[i].bytes = encode(val[queue[i].by], Format)
    /\ \A i, j \in 1..Len(queue) : queue[i].by = queue[j].by /\ queue[i].by # Nobody => i = j

\* A reading of a controller is never made of a command that was not obeyed: what a
\* request that is about to record holds was carried out, whatever happens to the link,
\* and without straying it is the last that was.
RecordsTheLast ==
    \A r \in Requests : pc[r] = "obeyed" /\ ~strayed => Told(val[r]) = obeyed

IInv == TypeOK /\ Encodable /\ Awaited /\ RecordsTheLast /\ RecordIsObeyed

\* The format of the channel stays what it is, and with it what can be queued.
LEMMA Fixed ==
    ASSUME [Next]_vars
    PROVE  Format' = Format /\ Codes' = Codes /\ Command' = Command /\ kind' = kind
<1>1. kind' = kind
  BY DEF Next, vars, Begin, Submit, Timeout, Insert, InsertFails, LinkUp, LinkDown, Obey, ObeyFails
<1>. QED
  BY <1>1 DEF Format, Codes, Command

\* Bytes that can be queued say a number: the one their value was cut to.
LEMMA Said ==
    ASSUME TypeOK
    PROVE  /\ \A v \in Values : encode(v, Format) # Refused =>
                 encode(v, Format) \in Codes /\ decode(encode(v, Format), Format) = Truncated(v)
           /\ \A b \in Codes : decode(b, Format) \in Int
           /\ \A v \in Values : Told(v) = Truncated(v) /\ Told(v) \in Int
           /\ Told(NoValue) = NoValue
<1>1. kind \in DOMAIN FORMATS /\ Format = FORMATS[kind]
  BY ValuesAssumption DEF TypeOK, Format
<1>2. ASSUME NEW v \in Values
      PROVE  /\ encode(v, Format) # Refused => decode(encode(v, Format), Format) = Truncated(v)
             /\ Truncated(v) \in Int
             /\ Told(v) = Truncated(v)
  BY <1>1, RoundTrip, TruncatedType, ValuesAssumption, NamesAssumption DEF Told
<1>3. \A b \in Codes : b # Refused /\ \E v \in Values : b = encode(v, Format)
  BY DEF Codes
<1>. QED
  BY <1>2, <1>3 DEF Codes, Told

\* The empty queue is a queue.
LEMMA Empty == <<>> \in Seq(Command) /\ Len(<<>>) = 0
  OBVIOUS

\* What is queued is a command.
LEMMA Commands ==
    ASSUME queue \in Seq(Command)
    PROVE  /\ Len(queue) \in Nat
           /\ DOMAIN queue = 1..Len(queue)
           /\ \A i \in 1..Len(queue) : /\ queue[i] \in Command
                                       /\ queue[i].bytes \in Codes
                                       /\ queue[i].by \in Requests \cup {Nobody}
<1>1. Len(queue) \in Nat /\ DOMAIN queue = 1..Len(queue)
  OBVIOUS
<1>2. \A i \in 1..Len(queue) : queue[i] \in Command
  OBVIOUS
<1>3. \A c \in Command : c.bytes \in Codes /\ c.by \in Requests \cup {Nobody}
  BY DEF Command
<1>. QED
  BY <1>1, <1>2, <1>3

\* The queue and a command behind it: what Append does.
LEMMA Queued ==
    ASSUME NEW c \in Command, queue \in Seq(Command)
    PROVE  /\ Append(queue, c) \in Seq(Command)
           /\ Len(Append(queue, c)) = Len(queue) + 1
           /\ \A i \in 1..Len(queue) : Append(queue, c)[i] = queue[i]
           /\ Append(queue, c)[Len(queue) + 1] = c
  OBVIOUS

\* The queue without its head.
LEMMA Dequeued ==
    ASSUME queue \in Seq(Command), queue # <<>>
    PROVE  /\ Tail(queue) \in Seq(Command)
           /\ Len(Tail(queue)) = Len(queue) - 1
           /\ \A i \in 1..Len(Tail(queue)) : Tail(queue)[i] = queue[i + 1]
           /\ Head(queue) = queue[1]
           /\ Len(queue) \in Nat \ {0}
           /\ Head(queue) \in Command
  OBVIOUS

\* The queue after a caller has given up.
LEMMA Orphaned ==
    ASSUME NEW r \in Requests, queue \in Seq(Command),
           NEW q, q = [i \in DOMAIN queue |->
                         IF queue[i].by = r THEN [queue[i] EXCEPT !.by = Nobody] ELSE queue[i]]
    PROVE  /\ q \in Seq(Command)
           /\ Len(q) = Len(queue)
           /\ \A i \in 1..Len(queue) : /\ q[i].bytes = queue[i].bytes
                                       /\ queue[i].by = r => q[i].by = Nobody
                                       /\ queue[i].by # r => q[i].by = queue[i].by
<1>1. DOMAIN queue = 1..Len(queue) /\ Len(queue) \in Nat
  OBVIOUS
<1>2. \A i \in 1..Len(queue) : q[i] \in Command
  <2>1. \A c \in Command : [c EXCEPT !.by = Nobody] \in Command
    BY DEF Command
  <2>. QED
    BY <1>1, <2>1, Commands
<1>3. q \in [1..Len(queue) -> Command]
  BY <1>1, <1>2
<1>4. q \in Seq(Command) /\ Len(q) = Len(queue)
  BY <1>1, <1>3
<1>5. ASSUME NEW i \in 1..Len(queue)
      PROVE  /\ q[i].bytes = queue[i].bytes
             /\ queue[i].by = r => q[i].by = Nobody
             /\ queue[i].by # r => q[i].by = queue[i].by
  BY <1>1 DEF Command
<1>. QED
  BY <1>4, <1>5

LEMMA InitInv == Init => IInv
<1>. SUFFICES ASSUME Init PROVE IInv
  OBVIOUS
<1>1. TypeOK
  BY Empty DEF Init, TypeOK
<1>2. Awaited
  BY DEF Init, Awaited
<1>. QED
  BY <1>1, <1>2 DEF Init, IInv, Encodable, RecordsTheLast, RecordIsObeyed, Told

\* Type correctness is preserved by every step.
LEMMA TypeStep == IInv /\ [Next]_vars => TypeOK'
<1>. SUFFICES ASSUME IInv, [Next]_vars PROVE TypeOK'
  OBVIOUS
<1>0. Format' = Format /\ Codes' = Codes /\ Command' = Command /\ kind' = kind
  BY Fixed
<1>. USE <1>0 DEF IInv
<1>1. ASSUME NEW r \in Requests, NEW v \in Values, Begin(r, v) PROVE TypeOK'
  <2>1. v # NoValue
    BY ValuesAssumption, NamesAssumption
  <2>. QED
    BY <1>1, <2>1 DEF TypeOK, Begin
<1>2. ASSUME NEW r \in Requests, Submit(r) PROVE TypeOK'
  <2>1. CASE link
    <3>0. val[r] \in Values /\ encode(val[r], Format) # Refused
      BY <1>2 DEF TypeOK, Submit, Encodable
    <3>1. [bytes |-> encode(val[r], Format), by |-> r] \in Command
      BY <3>0, Said DEF Command
    <3>2. queue' \in Seq(Command)
      BY <1>2, <2>1, <3>1, Queued DEF TypeOK, Submit
    <3>. QED
      BY <1>2, <2>1, <3>2 DEF TypeOK, Submit
  <2>2. CASE ~link
    BY <1>2, <2>2 DEF TypeOK, Submit, Leave
  <2>. QED
    BY <2>1, <2>2
<1>3. ASSUME NEW r \in Requests, Timeout(r) PROVE TypeOK'
  <2>1. queue' \in Seq(Command)
    BY <1>3, Orphaned DEF TypeOK, Timeout
  <2>. QED
    BY <1>3, <2>1 DEF TypeOK, Timeout, Leave
<1>4. ASSUME NEW r \in Requests, Insert(r) \/ InsertFails(r) PROVE TypeOK'
  BY <1>4 DEF TypeOK, Insert, InsertFails, Leave
<1>5. CASE LinkUp
  BY <1>5 DEF TypeOK, LinkUp
<1>6. CASE LinkDown
  <2>1. queue' \in Seq(Command)
    BY <1>6, Empty DEF LinkDown
  <2>. QED
    BY <1>6, <2>1 DEF TypeOK, LinkDown, Waiting
<1>7. CASE Obey
  <2>1. queue' \in Seq(Command) /\ Head(queue) \in Command /\ Head(queue) = queue[1] /\ 1 \in 1..Len(queue)
    BY <1>7, Dequeued DEF TypeOK, Obey
  <2>2. \A r \in Requests : r = Head(queue).by => pc[r] = "waiting"
    BY <2>1, NamesAssumption DEF Awaited
  <2>3. pc' \in [Requests -> {"idle", "submit", "waiting", "obeyed"}]
    BY <1>7 DEF TypeOK, Obey
  <2>4. \A r \in Requests : val'[r] = NoValue <=> pc'[r] = "idle"
    BY <1>7, <2>2 DEF TypeOK, Obey
  <2>5. obeyed' \in Int /\ strayed' \in BOOLEAN
    BY <1>7, <2>1, Said DEF Obey, Command
  <2>. QED
    BY <1>7, <2>1, <2>3, <2>4, <2>5 DEF TypeOK, Obey
<1>8. CASE ObeyFails
  <2>1. queue' \in Seq(Command) /\ Head(queue) \in Command
    BY <1>8, Dequeued DEF TypeOK, ObeyFails
  <2>2. obeyed' \in Int \cup {NoValue} /\ strayed' \in BOOLEAN
    <3>1. decode(Head(queue).bytes, Format) \in Int
      BY <2>1, Said DEF Command
    <3>2. \/ obeyed' = obeyed /\ strayed' = strayed
          \/ obeyed' = decode(Head(queue).bytes, Format) /\ strayed' = TRUE
      BY <1>8 DEF ObeyFails
    <3>. QED
      BY <3>1, <3>2 DEF TypeOK
  <2>. QED
    BY <1>8, <2>1, <2>2 DEF TypeOK, ObeyFails
<1>9. CASE UNCHANGED vars
  BY <1>9 DEF TypeOK, vars
<1>. QED
  BY <1>1, <1>2, <1>3, <1>4, <1>5, <1>6, <1>7, <1>8, <1>9 DEF Next

\* A request goes on with a value only if the format takes it.
LEMMA EncodableStep == IInv /\ [Next]_vars => Encodable'
<1>. SUFFICES ASSUME IInv, [Next]_vars, NEW s \in Requests, pc'[s] # "idle"
              PROVE  encode(val'[s], Format) # Refused
  BY Fixed DEF Encodable
<1>. USE DEF IInv, Encodable
<1>1. ASSUME NEW r \in Requests, NEW v \in Values, Begin(r, v) PROVE encode(val'[s], Format) # Refused
  BY <1>1 DEF Begin, TypeOK
<1>2. ASSUME NEW r \in Requests, Submit(r) \/ Timeout(r) \/ Insert(r) \/ InsertFails(r)
      PROVE  encode(val'[s], Format) # Refused
  BY <1>2 DEF Submit, Timeout, Insert, InsertFails, Leave, TypeOK
<1>3. CASE LinkUp \/ LinkDown
  BY <1>3 DEF LinkUp, LinkDown, Waiting, TypeOK
<1>4. CASE Obey \/ ObeyFails
  <2>1. Head(queue) = queue[1] /\ 1 \in 1..Len(queue)
    BY <1>4, Dequeued DEF TypeOK, Obey, ObeyFails
  <2>2. s = Head(queue).by => pc[s] = "waiting"
    BY <2>1, NamesAssumption DEF Awaited
  <2>. QED
    BY <1>4, <2>2 DEF Obey, ObeyFails, TypeOK
<1>5. CASE UNCHANGED vars
  BY <1>5 DEF vars
<1>. QED
  BY <1>1, <1>2, <1>3, <1>4, <1>5 DEF Next

\* So is the tie between the queue and those who wait.
LEMMA AwaitedStep == IInv /\ [Next]_vars => Awaited'
<1>. SUFFICES ASSUME IInv, [Next]_vars PROVE Awaited'
  OBVIOUS
<1>0. Format' = Format /\ Codes' = Codes /\ Command' = Command /\ kind' = kind
  BY Fixed
<1>. USE <1>0 DEF IInv
<1>1. ASSUME NEW r \in Requests, NEW v \in Values, Begin(r, v) PROVE Awaited'
  BY <1>1 DEF Awaited, Begin, TypeOK, Command
<1>2. ASSUME NEW r \in Requests, Submit(r) PROVE Awaited'
  <2>1. CASE link
    <3>. DEFINE c == [bytes |-> encode(val[r], Format), by |-> r]
    <3>0. val[r] \in Values /\ encode(val[r], Format) # Refused
      BY <1>2 DEF TypeOK, Submit, Encodable
    <3>1. c \in Command /\ c.by = r /\ c.bytes = encode(val[r], Format)
      BY <3>0, Said DEF Command
    <3>2. /\ queue \in Seq(Command) /\ Len(queue) \in Nat
          /\ queue' = Append(queue, c) /\ Len(queue') = Len(queue) + 1
          /\ \A i \in 1..Len(queue) : queue'[i] = queue[i]
          /\ queue'[Len(queue) + 1] = c
      BY <1>2, <2>1, <3>1, Queued DEF TypeOK, Submit
    <3>3. \A i \in 1..Len(queue) : queue[i].by # r
      BY <1>2, NamesAssumption DEF Awaited, Submit
    <3>4. pc'[r] = "waiting" /\ val' = val /\ \A s \in Requests \ {r} : pc'[s] = pc[s]
      BY <1>2, <2>1 DEF Submit, TypeOK
    <3>5. \A i \in 1..Len(queue) : queue[i].by \in Requests \cup {Nobody}
      BY <3>2, Commands
    <3>6. ASSUME NEW i \in 1..Len(queue'), queue'[i].by # Nobody
          PROVE  pc'[queue'[i].by] = "waiting" /\ queue'[i].bytes = encode(val'[queue'[i].by], Format)
      <4>1. CASE i = Len(queue) + 1
        BY <3>1, <3>2, <3>4, <4>1
      <4>2. CASE i \in 1..Len(queue)
        BY <3>2, <3>3, <3>4, <3>5, <3>6, <4>2 DEF Awaited
      <4>. QED
        BY <3>2, <4>1, <4>2
    <3>7. ASSUME NEW i \in 1..Len(queue'), NEW j \in 1..Len(queue'),
                 queue'[i].by = queue'[j].by, queue'[i].by # Nobody
          PROVE  i = j
      <4>1. CASE i \in 1..Len(queue) /\ j \in 1..Len(queue)
        BY <3>2, <3>7, <4>1 DEF Awaited
      <4>2. CASE i = Len(queue) + 1 \/ j = Len(queue) + 1
        BY <3>1, <3>2, <3>3, <3>7, <4>2
      <4>. QED
        BY <3>2, <4>1, <4>2
    <3>. QED
      BY <3>6, <3>7 DEF Awaited
  <2>2. CASE ~link
    <3>1. \A i \in 1..Len(queue) : queue[i].by # r
      <4>1. pc[r] = "submit" /\ r # Nobody
        BY <1>2, NamesAssumption DEF Submit
      <4>. QED
        BY <4>1 DEF Awaited
    <3>2. \A s \in Requests \ {r} : pc'[s] = pc[s] /\ val'[s] = val[s]
      BY <1>2, <2>2 DEF Submit, Leave, TypeOK
    <3>3. queue' = queue /\ \A i \in 1..Len(queue) : queue[i].by \in Requests \cup {Nobody}
      BY <1>2, <2>2, Commands DEF Submit, TypeOK
    <3>. QED
      BY <3>1, <3>2, <3>3 DEF Awaited
  <2>. QED
    BY <2>1, <2>2
<1>3. ASSUME NEW r \in Requests, Timeout(r) PROVE Awaited'
  <2>1. /\ Len(queue') = Len(queue)
        /\ \A i \in 1..Len(queue) : /\ queue'[i].bytes = queue[i].bytes
                                    /\ queue[i].by = r => queue'[i].by = Nobody
                                    /\ queue[i].by # r => queue'[i].by = queue[i].by
    BY <1>3, Orphaned DEF TypeOK, Timeout
  <2>2. \A i \in 1..Len(queue) : queue[i].by \in Requests \cup {Nobody}
    BY Commands DEF TypeOK
  <2>3. \A s \in Requests \ {r} : pc'[s] = pc[s] /\ val'[s] = val[s]
    BY <1>3 DEF Timeout, Leave, TypeOK
  <2>. QED
    BY <2>1, <2>2, <2>3 DEF Awaited
<1>4. ASSUME NEW r \in Requests, Insert(r) \/ InsertFails(r) PROVE Awaited'
  <2>1. \A i \in 1..Len(queue) : queue[i].by # Nobody => queue[i].by # r
    BY <1>4 DEF Awaited, Insert, InsertFails
  <2>2. \A s \in Requests \ {r} : pc'[s] = pc[s] /\ val'[s] = val[s]
    BY <1>4 DEF Insert, InsertFails, Leave, TypeOK
  <2>3. queue' = queue /\ \A i \in 1..Len(queue) : queue[i].by \in Requests \cup {Nobody}
    BY <1>4, Commands DEF Insert, InsertFails, TypeOK
  <2>. QED
    BY <2>1, <2>2, <2>3 DEF Awaited
<1>5. CASE LinkUp
  BY <1>5 DEF Awaited, LinkUp
<1>6. CASE LinkDown
  BY <1>6 DEF Awaited, LinkDown
<1>7. CASE Obey \/ ObeyFails
  <2>1. /\ Len(queue') = Len(queue) - 1 /\ Len(queue) \in Nat \ {0}
        /\ \A i \in 1..Len(queue') : queue'[i] = queue[i + 1]
        /\ Head(queue) = queue[1]
    BY <1>7, Dequeued DEF TypeOK, Obey, ObeyFails
  <2>2. \A i \in 1..Len(queue) : queue[i].by \in Requests \cup {Nobody}
    BY Commands DEF TypeOK
  <2>3. \A s \in Requests : s # queue[1].by => pc'[s] = pc[s] /\ val'[s] = val[s]
    BY <1>7, <2>1 DEF Obey, ObeyFails, TypeOK
  <2>4. \A i \in 1..Len(queue') : i + 1 \in 1..Len(queue) /\ i + 1 # 1
    BY <2>1
  <2>5. \A i \in 1..Len(queue') : queue'[i].by # Nobody => queue'[i].by # queue[1].by
    BY <2>1, <2>4 DEF Awaited
  <2>6. ASSUME NEW i \in 1..Len(queue'), queue'[i].by # Nobody
        PROVE  pc'[queue'[i].by] = "waiting" /\ queue'[i].bytes = encode(val'[queue'[i].by], Format)
    BY <2>1, <2>2, <2>3, <2>4, <2>5, <2>6 DEF Awaited
  <2>7. ASSUME NEW i \in 1..Len(queue'), NEW j \in 1..Len(queue'),
               queue'[i].by = queue'[j].by, queue'[i].by # Nobody
        PROVE  i = j
    <3>1. i + 1 = j + 1
      BY <2>1, <2>4, <2>7 DEF Awaited
    <3>. QED
      BY <3>1
  <2>. QED
    BY <2>6, <2>7 DEF Awaited
<1>9. CASE UNCHANGED vars
  BY <1>9 DEF Awaited, vars
<1>. QED
  BY <1>1, <1>2, <1>3, <1>4, <1>5, <1>6, <1>7, <1>9 DEF Next

\* And so are the two statements about the record.
LEMMA RecordStep == IInv /\ [Next]_vars => RecordsTheLast' /\ RecordIsObeyed'
<1>. SUFFICES ASSUME IInv, [Next]_vars PROVE RecordsTheLast' /\ RecordIsObeyed'
  OBVIOUS
<1>0. Format' = Format /\ Codes' = Codes /\ Command' = Command /\ kind' = kind
  BY Fixed
<1>. USE <1>0 DEF IInv, RecordsTheLast, RecordIsObeyed, Unrecorded
<1>1. ASSUME NEW r \in Requests, NEW v \in Values, Begin(r, v)
      PROVE  RecordsTheLast' /\ RecordIsObeyed'
  BY <1>1 DEF Begin, TypeOK
<1>2. ASSUME NEW r \in Requests, Submit(r) \/ Timeout(r)
      PROVE  RecordsTheLast' /\ RecordIsObeyed'
  BY <1>2 DEF Submit, Timeout, Leave, TypeOK
<1>3. ASSUME NEW r \in Requests, Insert(r) PROVE RecordsTheLast' /\ RecordIsObeyed'
  BY <1>3 DEF Insert, Leave, TypeOK
<1>4. ASSUME NEW r \in Requests, InsertFails(r) PROVE RecordsTheLast' /\ RecordIsObeyed'
  BY <1>4 DEF InsertFails, Leave, TypeOK
<1>5. CASE LinkUp
  BY <1>5 DEF LinkUp
<1>6. CASE LinkDown
  BY <1>6 DEF LinkDown, Waiting, TypeOK
<1>7. CASE Obey
  <2>1. Head(queue) = queue[1] /\ 1 \in 1..Len(queue) /\ Head(queue) \in Command
    BY <1>7, Dequeued DEF TypeOK, Obey
  <2>2. CASE Head(queue).by = Nobody \/ \E r \in Requests : pc[r] = "obeyed"
    BY <1>7, <2>2 DEF Obey
  <2>3. CASE Head(queue).by # Nobody /\ \A r \in Requests : pc[r] # "obeyed"
    <3>1. PICK s \in Requests : s = Head(queue).by
      BY <2>1, <2>3 DEF Command
    <3>2. Told(val'[s]) = obeyed'
      <4>1. pc[s] = "waiting" /\ Head(queue).bytes = encode(val[s], Format)
        BY <2>1, <2>3, <3>1 DEF Awaited
      <4>2. val[s] \in Values /\ encode(val[s], Format) # Refused
        BY <4>1 DEF TypeOK, Encodable
      <4>. QED
        BY <1>7, <4>1, <4>2, Said DEF Obey
    <3>3. pc'[s] = "obeyed" /\ \A r \in Requests \ {s} : pc'[r] # "obeyed"
      BY <1>7, <2>3, <3>1 DEF Obey, TypeOK
    <3>. QED
      BY <3>2, <3>3
  <2>. QED
    BY <2>2, <2>3
<1>8. CASE ObeyFails
  <2>1. Head(queue) = queue[1] /\ 1 \in 1..Len(queue)
    BY <1>8, Dequeued DEF TypeOK, ObeyFails
  <2>2. \A r \in Requests : r = Head(queue).by => pc[r] = "waiting"
    BY <2>1, NamesAssumption DEF Awaited
  <2>3. \A r \in Requests : /\ pc'[r] = "obeyed" <=> pc[r] = "obeyed"
                            /\ pc[r] = "obeyed" => val'[r] = val[r]
    BY <1>8, <2>2 DEF ObeyFails, TypeOK
  <2>. QED
    BY <1>8, <2>3 DEF ObeyFails
<1>9. CASE UNCHANGED vars
  BY <1>9 DEF vars
<1>. QED
  BY <1>1, <1>2, <1>3, <1>4, <1>5, <1>6, <1>7, <1>8, <1>9 DEF Next

\* Every variable of a command's way keeps its type, for every number of requests.
THEOREM TypeCorrect == Spec => []TypeOK
<1>1. IInv /\ [Next]_vars => IInv'
  BY TypeStep, EncodableStep, AwaitedStep, RecordStep DEF IInv
<1>2. IInv => TypeOK
  BY DEF IInv
<1>. QED
  BY InitInv, <1>1, <1>2, PTL DEF Spec

\* The control shows what the peripheral last obeyed, unless a caller gave up or was
\* told of a failure, a record failed, or two commands overlapped: write_command strays
\* in no other way, for every number of requests, values and commands.
THEOREM RecordCorrect == Spec => [](RecordIsObeyed /\ RecordsTheLast)
<1>1. IInv /\ [Next]_vars => IInv'
  BY TypeStep, EncodableStep, AwaitedStep, RecordStep DEF IInv
<1>2. IInv => RecordIsObeyed /\ RecordsTheLast
  BY DEF IInv
<1>. QED
  BY InitInv, <1>1, <1>2, PTL DEF Spec
=============================================================================
