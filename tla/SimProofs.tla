------------------------------ MODULE SimProofs ------------------------------
(***************************************************************************)
(* The simulated UART server keeps its replies, its characters and its     *)
(* transmit port right under every test.                                   *)
(*                                                                         *)
(* The server's control is the sequence todo of the statements it has yet  *)
(* to execute.  Each place in its code is given a label; todo follows the  *)
(* labels (On), and the invariant says what holds at each label.           *)
(***************************************************************************)
EXTENDS SimUart, SequenceTheorems, TLAPS

-----------------------------------------------------------------------------
(* The places of the server's code *)

\* The statement at each label, and the label of the one that follows it.  A
\* message's handler begins with taking its key; a branch of handle_irq goes on
\* with the test of the next bit.
Line(l) ==
  CASE l = "start"       -> <<Mask(p_rx), "open">>
    [] l = "open"        -> <<OpenReceive, "none">>
    [] l = "reply"       -> <<Send(k_saved_reply), "open">>
    [] l = "take_mon"    -> <<MoveCap(k0, k_saved_reply), "reply">>
    [] l = "take_other"  -> <<MoveCap(k0, k_saved_reply), "open">>
    [] l = "take_send1"  -> <<MoveCap(k0, k_saved_reply), "send1_write">>
    [] l = "take_flush"  -> <<MoveCap(k0, k_saved_reply), "flush_read">>
    [] l = "take_recv1"  -> <<MoveCap(k0, k_saved_reply), "recv1_read">>
    [] l = "take_irq"    -> <<MoveCap(k0, k_saved_reply), "irq_sr">>
    [] l = "send1_write" -> <<Write("dr"), "send1_mask">>
    [] l = "send1_mask"  -> <<Mask(p_tx), "send1_cr1">>
    [] l = "send1_cr1"   -> <<Read("cr1"), "send1_set">>
    [] l = "send1_set"   -> <<SetCopy({"txe"}, {}), "send1_on">>
    [] l = "send1_on"    -> <<Write("cr1"), "reply">>
    [] l = "flush_read"  -> <<Read("cr1"), "flush_set">>
    [] l = "flush_set"   -> <<SetCopy({"tc"}, {}), "flush_on">>
    [] l = "flush_on"    -> <<Write("cr1"), "flush_mask">>
    [] l = "flush_mask"  -> <<Mask(p_tx), "flush_move">>
    [] l = "flush_move"  -> <<MoveCap(k_saved_reply, k_flush_reply), "flush_begin">>
    [] l = "flush_begin" -> <<SetFlush(TRUE), "open">>
    [] l = "recv1_read"  -> <<Read("dr"), "recv1_mask">>
    [] l = "recv1_mask"  -> <<Mask(p_rx), "recv1_cr1">>
    [] l = "recv1_cr1"   -> <<Read("cr1"), "recv1_set">>
    [] l = "recv1_set"   -> <<SetCopy({"rxne"}, {}), "recv1_on">>
    [] l = "recv1_on"    -> <<Write("cr1"), "reply">>
    [] l = "irq_sr"      -> <<Read("sr"), "irq_cr1">>
    [] l = "irq_cr1"     -> <<Read("cr1"), "irq_txe">>
    [] l = "irq_txe"     -> <<If("txe"), "irq_rxne">>
    [] l = "irq_rxne"    -> <<If("rxne"), "irq_tc">>
    [] l = "irq_tc"      -> <<If("tc"), "reply">>
    [] l = "txe_set"     -> <<SetCopy({}, {"txe"}), "txe_off">>
    [] l = "txe_off"     -> <<Write("cr1"), "txe_unmask">>
    [] l = "txe_unmask"  -> <<Unmask(p_tx), "irq_rxne">>
    [] l = "rxne_set"    -> <<SetCopy({}, {"rxne"}), "rxne_off">>
    [] l = "rxne_off"    -> <<Write("cr1"), "rxne_unmask">>
    [] l = "rxne_unmask" -> <<Unmask(p_rx), "irq_tc">>
    [] l = "tc_set"      -> <<SetCopy({}, {"tc"}), "tc_off">>
    [] l = "tc_off"      -> <<Write("cr1"), "tc_reply">>
    [] l = "tc_reply"    -> <<Send(k_flush_reply), "tc_end">>
    [] l = "tc_end"      -> <<SetFlush(FALSE), "tc_unmask">>
    [] l = "tc_unmask"   -> <<Unmask(p_tx), "reply">>
Op(l)    == Line(l)[1]
After(l) == Line(l)[2]

Take  == {"take_mon", "take_other", "take_send1", "take_flush", "take_recv1", "take_irq"}
Send1 == {"send1_write", "send1_mask", "send1_cr1", "send1_set", "send1_on"}
Flush == {"flush_read", "flush_set", "flush_on", "flush_mask", "flush_move", "flush_begin"}
Recv1 == {"recv1_read", "recv1_mask", "recv1_cr1", "recv1_set", "recv1_on"}
OnIrq == {"irq_sr", "irq_cr1", "irq_txe", "irq_rxne", "irq_tc"}
OnTxe == {"txe_set", "txe_off", "txe_unmask"}
OnRxne == {"rxne_set", "rxne_off", "rxne_unmask"}
OnTc   == {"tc_set", "tc_off", "tc_reply", "tc_end", "tc_unmask"}
Label  == {"start", "open", "reply"} \cup Take \cup Send1 \cup Flush \cup Recv1
            \cup OnIrq \cup OnTxe \cup OnRxne \cup OnTc

\* s is what is left to do at label l: the statements of a path of labels that
\* starts there and ends when the server receives again.
Path(p, s) ==
  /\ s \in Seq({Op(l) : l \in Label}) /\ p \in Seq(Label)
  /\ Len(p) = Len(s) /\ Len(p) > 0
  /\ \A i \in 1 .. Len(p) : s[i] = Op(p[i]) /\ (p[i] = "open" <=> i = Len(p))
  /\ \A i \in 1 .. (Len(p) - 1) : p[i + 1] = After(p[i])
On(l, s) == \E p : Path(p, s) /\ p[1] = l

\* Where a message on a port is handled.
Taking(port, tag) ==
  CASE port = p_mon /\ tag = 0 -> "take_mon"
    [] port = p_tx /\ tag = 0  -> "take_send1"
    [] port = p_tx /\ tag = 1  -> "take_flush"
    [] port = p_irq            -> "take_irq"
    [] port = p_rx /\ tag = 0  -> "take_recv1"
    [] OTHER                   -> "take_other"

-----------------------------------------------------------------------------
(* What holds at each place *)

\* The transmit port: masked or not, flushing or not, its interrupts enabled or
\* not, and what is known of the data register.
Tx(closed, flush, txe, tc) ==
  /\ p_tx \in masked_ports <=> closed
  /\ flushing <=> flush
  /\ "txe" \in cr1 <=> txe
  /\ "tc" \in cr1 <=> tc
Empty == "txe" \in sr

Free     == Tx(FALSE, FALSE, FALSE, FALSE) /\ Empty
Sending  == Tx(TRUE, FALSE, TRUE, FALSE)
Flushing == Tx(TRUE, TRUE, FALSE, TRUE) /\ Empty
Rest     == Free \/ Sending \/ Flushing

Transmitter(l) ==
  /\ l \in {"open", "reply", "take_mon", "take_other", "take_recv1", "take_irq"}
             \cup Recv1 \cup OnIrq \cup OnRxne => Rest
  /\ l \in {"start", "take_send1", "take_flush", "send1_write", "flush_read", "flush_set",
            "flush_on"} => Free
  /\ l = "send1_mask" => Tx(FALSE, FALSE, FALSE, FALSE)
  /\ l \in {"send1_cr1", "send1_set", "send1_on"} => Tx(TRUE, FALSE, FALSE, FALSE)
  /\ l = "flush_mask" => Tx(FALSE, FALSE, FALSE, TRUE) /\ Empty
  /\ l \in {"flush_move", "flush_begin"} => Tx(TRUE, FALSE, FALSE, TRUE) /\ Empty
  /\ l \in {"txe_set", "txe_off"} => Sending /\ Empty
  /\ l \in {"txe_unmask", "tc_unmask"} => Tx(TRUE, FALSE, FALSE, FALSE) /\ Empty
  /\ l \in {"tc_set", "tc_off"} => Flushing /\ "tc" \in sr
  /\ l \in {"tc_reply", "tc_end"} => Tx(TRUE, TRUE, FALSE, FALSE) /\ {"txe", "tc"} \subseteq sr

\* The copies of the registers in the handlers, at place l, the one being read
\* included.
Cr1Copy == IF response # Nothing /\ Head(todo) = Read("cr1") THEN response.value ELSE cr1_read
SrCopy  == IF response # Nothing /\ Head(todo) = Read("sr") THEN response.value ELSE sr_read
Copies(l) ==
  /\ l \in {"send1_set", "flush_set", "recv1_set", "irq_txe", "irq_rxne", "irq_tc", "txe_set",
            "txe_unmask", "rxne_set", "rxne_unmask", "tc_set"} => Cr1Copy = cr1
  /\ l = "send1_on"  => Cr1Copy = cr1 \cup {"txe"}
  /\ l = "flush_on"  => Cr1Copy = cr1 \cup {"tc"}
  /\ l = "recv1_on"  => Cr1Copy = cr1 \cup {"rxne"}
  /\ l = "txe_off"   => Cr1Copy = cr1 \ {"txe"}
  /\ l = "rxne_off"  => Cr1Copy = cr1 \ {"rxne"}
  /\ l = "tc_off"    => Cr1Copy = cr1 \ {"tc"}
  /\ l \in (OnIrq \ {"irq_sr"}) \cup OnTxe \cup OnRxne => SrCopy \cap {"txe", "tc"} \subseteq sr

\* Who is to be answered: the caller whose flush is under way, and the one whose
\* message is being handled, whose key is in register r.
FlushOwed == IF flushing THEN {clist[k_flush_reply]} ELSE {}
Owed(r) ==
  /\ owed = FlushOwed \cup {clist[r]}
  /\ clist[r] \in Name
  /\ clist[r] \notin FlushOwed
Callers(l) ==
  /\ l \in {"start", "open", "take_other"} => owed = FlushOwed
  /\ l \in Take \ {"take_other"} => Owed(k0)
  /\ l = "flush_begin" => owed = {clist[k_flush_reply]}
  /\ l = "tc_end" => owed = {clist[k_saved_reply]} /\ clist[k_saved_reply] \in Name
  /\ l \in {"reply"} \cup Send1 \cup (Flush \ {"flush_begin"}) \cup Recv1 \cup OnIrq \cup OnTxe
             \cup OnRxne \cup (OnTc \ {"tc_end"}) => Owed(k_saved_reply)
  /\ flushing \/ l = "flush_begin" => clist[k_flush_reply] \in Name

\* The place whose statement is next to take effect: the one after l when the
\* answer to l is in the pipe.
Place(l) ==
  IF response = Nothing THEN l
  ELSE IF l = "open" THEN Taking(response.port, response.tag)
  ELSE After(l)

\* What may be in the pipes at l.
SystemCall == {"copy_cap", "mask_port", "unmask_port", "open_receive", "call", "send"}
Pipes(l) ==
  /\ request # Nothing => request = Op(l) /\ Op(l).op \in SystemCall /\ response = Nothing
  /\ response # Nothing =>
       \/ Op(l).op \in {"copy_cap", "mask_port", "unmask_port", "send"} /\ response = Complete
       \/ /\ Op(l).op = "call"
          /\ \E v : response = [type |-> "message", value |-> v]
       \/ /\ Op(l).op = "open_receive"
          /\ \E port \in {p_mon, p_tx, p_irq, p_rx}, tag \in 0 .. 2 :
               response = [type |-> "message", port |-> port, tag |-> tag]

Here(l) ==
  /\ l \in Label /\ On(l, todo) /\ Pipes(l)
  /\ Transmitter(Place(l)) /\ Copies(Place(l)) /\ Callers(Place(l))

IInv ==
  /\ DOMAIN clist = KeyIndex /\ clist[k_reg] = "hw"
  /\ \E l \in Label : Here(l)

-----------------------------------------------------------------------------
(* Sequences of statements *)

\* The labels, by their statements.
LEMMA Statements ==
  ASSUME NEW l \in Label
  PROVE  /\ Op(l).op = "copy_cap" => l \in Take \cup {"flush_move"}
         /\ Op(l).op = "mask_port" => l \in {"start", "send1_mask", "flush_mask", "recv1_mask"}
         /\ Op(l).op = "unmask_port" => l \in {"txe_unmask", "rxne_unmask", "tc_unmask"}
         /\ Op(l).op = "open_receive" => l = "open"
         /\ Op(l).op = "call" =>
              l \in {"send1_cr1", "flush_read", "recv1_read", "recv1_cr1", "irq_sr", "irq_cr1"}
         /\ Op(l).op = "send" =>
              l \in {"reply", "send1_write", "send1_on", "flush_on", "recv1_on", "txe_off",
                     "rxne_off", "tc_off", "tc_reply"}
         /\ Op(l).op = "set_cr1" =>
              l \in {"send1_set", "flush_set", "recv1_set", "txe_set", "rxne_set", "tc_set"}
         /\ Op(l).op = "if" => l \in {"irq_txe", "irq_rxne", "irq_tc"}
         /\ Op(l).op = "flushing" => l \in {"flush_begin", "tc_end"}
         /\ Op(l).op # "none"
         /\ After(l) \in Label \/ l = "open"
<1>. USE DEF Op, After, Line, Mask, Unmask, OpenReceive, Send, MoveCap, Read, Write, SetCopy,
            If, SetFlush, Label, Take, Send1, Flush, Recv1, OnIrq, OnTxe, OnRxne, OnTc
<1>0. CASE l \in {"start", "open", "reply"}
  <2>1. CASE l = "start"
    BY <2>1
  <2>2. CASE l = "open"
    BY <2>2
  <2>3. CASE l = "reply"
    BY <2>3
  <2>. QED  BY <1>0, <2>1, <2>2, <2>3
<1>1. CASE l \in Take
  <2>1. CASE l = "take_mon"
    BY <2>1
  <2>2. CASE l = "take_other"
    BY <2>2
  <2>3. CASE l = "take_send1"
    BY <2>3
  <2>4. CASE l = "take_flush"
    BY <2>4
  <2>5. CASE l = "take_recv1"
    BY <2>5
  <2>6. CASE l = "take_irq"
    BY <2>6
  <2>. QED  BY <1>1, <2>1, <2>2, <2>3, <2>4, <2>5, <2>6
<1>2. CASE l \in Send1
  <2>1. CASE l = "send1_write"
    BY <2>1
  <2>2. CASE l = "send1_mask"
    BY <2>2
  <2>3. CASE l = "send1_cr1"
    BY <2>3
  <2>4. CASE l = "send1_set"
    BY <2>4
  <2>5. CASE l = "send1_on"
    BY <2>5
  <2>. QED  BY <1>2, <2>1, <2>2, <2>3, <2>4, <2>5
<1>3. CASE l \in Flush
  <2>1. CASE l = "flush_read"
    BY <2>1
  <2>2. CASE l = "flush_set"
    BY <2>2
  <2>3. CASE l = "flush_on"
    BY <2>3
  <2>4. CASE l = "flush_mask"
    BY <2>4
  <2>5. CASE l = "flush_move"
    BY <2>5
  <2>6. CASE l = "flush_begin"
    BY <2>6
  <2>. QED  BY <1>3, <2>1, <2>2, <2>3, <2>4, <2>5, <2>6
<1>4. CASE l \in Recv1
  <2>1. CASE l = "recv1_read"
    BY <2>1
  <2>2. CASE l = "recv1_mask"
    BY <2>2
  <2>3. CASE l = "recv1_cr1"
    BY <2>3
  <2>4. CASE l = "recv1_set"
    BY <2>4
  <2>5. CASE l = "recv1_on"
    BY <2>5
  <2>. QED  BY <1>4, <2>1, <2>2, <2>3, <2>4, <2>5
<1>5. CASE l \in OnIrq
  <2>1. CASE l = "irq_sr"
    BY <2>1
  <2>2. CASE l = "irq_cr1"
    BY <2>2
  <2>3. CASE l = "irq_txe"
    BY <2>3
  <2>4. CASE l = "irq_rxne"
    BY <2>4
  <2>5. CASE l = "irq_tc"
    BY <2>5
  <2>. QED  BY <1>5, <2>1, <2>2, <2>3, <2>4, <2>5
<1>6. CASE l \in OnTxe
  <2>1. CASE l = "txe_set"
    BY <2>1
  <2>2. CASE l = "txe_off"
    BY <2>2
  <2>3. CASE l = "txe_unmask"
    BY <2>3
  <2>. QED  BY <1>6, <2>1, <2>2, <2>3
<1>7. CASE l \in OnRxne
  <2>1. CASE l = "rxne_set"
    BY <2>1
  <2>2. CASE l = "rxne_off"
    BY <2>2
  <2>3. CASE l = "rxne_unmask"
    BY <2>3
  <2>. QED  BY <1>7, <2>1, <2>2, <2>3
<1>8. CASE l \in OnTc
  <2>1. CASE l = "tc_set"
    BY <2>1
  <2>2. CASE l = "tc_off"
    BY <2>2
  <2>3. CASE l = "tc_reply"
    BY <2>3
  <2>4. CASE l = "tc_end"
    BY <2>4
  <2>5. CASE l = "tc_unmask"
    BY <2>5
  <2>. QED  BY <1>8, <2>1, <2>2, <2>3, <2>4, <2>5
<1>. QED  BY <1>0, <1>1, <1>2, <1>3, <1>4, <1>5, <1>6, <1>7, <1>8

\* The statement at the head of a path, and the rest of the path.
LEMMA OnTail ==
  ASSUME NEW l \in Label, NEW s, On(l, s)
  PROVE  /\ s # << >> /\ Head(s) = Op(l)
         /\ l # "open" => On(After(l), Tail(s))
<1>1. PICK p : Path(p, s) /\ p[1] = l
  BY DEF On
<1>2. /\ s \in Seq({Op(m) : m \in Label}) /\ p \in Seq(Label)
      /\ s # << >> /\ p # << >>
      /\ Head(s) = s[1]
  BY <1>1, EmptySeq DEF Path
<1>3. Head(s) = Op(l)
  BY <1>1, <1>2, LenProperties DEF Path
<1>4. ASSUME l # "open"
      PROVE  Path(Tail(p), Tail(s)) /\ Tail(p)[1] = After(l)
  <2>1. /\ Tail(s) \in Seq({Op(m) : m \in Label}) /\ Tail(p) \in Seq(Label)
        /\ Len(Tail(s)) = Len(s) - 1 /\ Len(Tail(p)) = Len(p) - 1
        /\ \A i \in 1 .. Len(p) - 1 : Tail(s)[i] = s[i + 1] /\ Tail(p)[i] = p[i + 1]
    BY <1>1, <1>2, HeadTailProperties DEF Path
  <2>2. Len(p) \in Nat /\ Len(p) > 1
    BY <1>1, <1>2, <1>4, LenProperties DEF Path
  <2>. QED  BY <1>1, <2>1, <2>2 DEF Path
<1>. QED  BY <1>2, <1>3, <1>4 DEF On

\* A statement goes in front of the one that follows it.
LEMMA OnBefore ==
  ASSUME NEW l \in Label \ {"open"}, NEW s, On(After(l), s)
  PROVE  On(l, <<Op(l)>> \o s)
<1>1. PICK p : Path(p, s) /\ p[1] = After(l)
  BY DEF On
<1>. DEFINE q == <<l>> \o p
            t == <<Op(l)>> \o s
            O == {Op(m) : m \in Label}
<1>2. /\ p \in Seq(Label) /\ s \in Seq(O) /\ Len(p) \in Nat /\ Len(s) = Len(p) /\ Len(p) > 0
      /\ <<l>> \in Seq(Label) /\ <<Op(l)>> \in Seq(O)
      /\ Len(<<l>>) = 1 /\ Len(<<Op(l)>>) = 1
  BY <1>1, LenProperties DEF Path
<1>3. /\ q \in Seq(Label) /\ Len(q) = Len(p) + 1
      /\ q[1] = l /\ \A i \in 2 .. Len(q) : q[i] = p[i - 1]
  BY <1>2, ConcatProperties
<1>4. /\ t \in Seq(O) /\ Len(t) = Len(p) + 1
      /\ t[1] = Op(l) /\ \A i \in 2 .. Len(t) : t[i] = s[i - 1]
  BY <1>2, ConcatProperties
<1>. HIDE DEF q, t
<1>5. \A i \in 1 .. Len(q) : t[i] = Op(q[i]) /\ (q[i] = "open" <=> i = Len(q))
  <2>. SUFFICES ASSUME NEW i \in 1 .. Len(q)
                PROVE  t[i] = Op(q[i]) /\ (q[i] = "open" <=> i = Len(q))
    OBVIOUS
  <2>1. CASE i = 1
    BY <1>2, <1>3, <1>4, <2>1
  <2>2. CASE i # 1
    BY <1>1, <1>2, <1>3, <1>4, <2>2 DEF Path
  <2>. QED  BY <2>1, <2>2
<1>6. \A i \in 1 .. (Len(q) - 1) : q[i + 1] = After(q[i])
  <2>. SUFFICES ASSUME NEW i \in 1 .. (Len(q) - 1)
                PROVE  q[i + 1] = After(q[i])
    OBVIOUS
  <2>1. CASE i = 1
    BY <1>1, <1>2, <1>3, <2>1
  <2>2. CASE i # 1
    BY <1>1, <1>2, <1>3, <2>2 DEF Path
  <2>. QED  BY <2>1, <2>2
<1>7. Path(q, t)
  BY <1>2, <1>3, <1>4, <1>5, <1>6 DEF Path
<1>. QED  BY <1>3, <1>7 DEF On, q, t

\* The last statement of a message's handling.
LEMMA OnOpen == On("open", <<OpenReceive>>)
<1>1. "open" \in Label /\ Op("open") = OpenReceive
  BY DEF Label, Op, Line
<1>2. /\ <<"open">> \in Seq(Label) /\ <<OpenReceive>> \in Seq({Op(l) : l \in Label})
      /\ Len(<<"open">>) = 1 /\ Len(<<OpenReceive>>) = 1
  BY <1>1
<1>3. Path(<<"open">>, <<OpenReceive>>)
  BY <1>1, <1>2 DEF Path
<1>. QED  BY <1>3 DEF On

\* What the code's sequences are made of.
Statement == {Op(l) : l \in Label}

\* The sequences of two, three and five statements, taken apart.
LEMMA Pair ==
  ASSUME NEW S, NEW a \in S, NEW b \in S
  PROVE  <<a, b>> = <<a>> \o <<b>> /\ <<a, b>> \in Seq(S) /\ <<a>> \in Seq(S)
<1>. DEFINE x == <<a>> \o <<b>>
            y == <<a, b>>
<1>1. <<a>> \in Seq(S)
  OBVIOUS
<1>2. <<b>> \in Seq(S)
  OBVIOUS
<1>3. y \in Seq(S)
  OBVIOUS
<1>4. Len(<<a>>) = 1 /\ Len(<<b>>) = 1 /\ Len(y) = 2
  OBVIOUS
<1>5. x \in Seq(S) /\ Len(x) = 2
  BY <1>1, <1>2, <1>4, ConcatProperties
<1>6. x[1] = a
  BY <1>1, <1>2, <1>4, ConcatProperties
<1>7. x[2] = b
  BY <1>1, <1>2, <1>4, ConcatProperties
<1>8. y[1] = a /\ y[2] = b
  OBVIOUS
<1>. HIDE DEF x, y
<1>9. \A i \in 1 .. Len(x) : x[i] = y[i]
  BY <1>5, <1>6, <1>7, <1>8
<1>10. x = y
  BY <1>3, <1>4, <1>5, <1>9, SeqEqual
<1>. QED  BY <1>1, <1>3, <1>10 DEF x, y
LEMMA Triple ==
  ASSUME NEW S, NEW a \in S, NEW b \in S, NEW c \in S
  PROVE  <<a, b, c>> = <<a>> \o <<b, c>> /\ <<a, b, c>> \in Seq(S)
<1>. DEFINE x == <<a>> \o <<b, c>>
            y == <<a, b, c>>
<1>1. <<a>> \in Seq(S)
  OBVIOUS
<1>2. <<b, c>> \in Seq(S)
  OBVIOUS
<1>3. y \in Seq(S)
  OBVIOUS
<1>4. Len(<<a>>) = 1 /\ Len(<<b, c>>) = 2 /\ Len(y) = 3
  OBVIOUS
<1>5. x \in Seq(S) /\ Len(x) = 3
  BY <1>1, <1>2, <1>4, ConcatProperties
<1>6. x[1] = a
  BY <1>1, <1>2, <1>4, ConcatProperties
<1>7. x[2] = b
  BY <1>1, <1>2, <1>4, ConcatProperties
<1>8. x[3] = c
  BY <1>1, <1>2, <1>4, ConcatProperties
<1>9. y[1] = a /\ y[2] = b /\ y[3] = c
  OBVIOUS
<1>. HIDE DEF x, y
<1>10. \A i \in 1 .. Len(x) : x[i] = y[i]
  BY <1>5, <1>6, <1>7, <1>8, <1>9
<1>11. x = y
  BY <1>3, <1>4, <1>5, <1>10, SeqEqual
<1>. QED  BY <1>3, <1>11 DEF x, y
LEMMA Quintuple ==
  ASSUME NEW S, NEW a \in S, NEW b \in S, NEW c \in S, NEW d \in S, NEW e \in S
  PROVE  <<a, b, c, d, e>> = <<a, b, c>> \o <<d, e>>
<1>. DEFINE x == <<a, b, c>> \o <<d, e>>
            y == <<a, b, c, d, e>>
<1>1. <<a, b, c>> \in Seq(S)
  OBVIOUS
<1>2. <<d, e>> \in Seq(S)
  OBVIOUS
<1>3. y \in Seq(S)
  OBVIOUS
<1>4. Len(<<a, b, c>>) = 3 /\ Len(<<d, e>>) = 2 /\ Len(y) = 5
  OBVIOUS
<1>5. x \in Seq(S) /\ Len(x) = 5
  BY <1>1, <1>2, <1>4, ConcatProperties
<1>6. x[1] = a /\ x[2] = b /\ x[3] = c
  BY <1>1, <1>2, <1>4, ConcatProperties
<1>7. x[4] = d /\ x[5] = e
  BY <1>1, <1>2, <1>4, ConcatProperties
<1>8. y[1] = a /\ y[2] = b /\ y[3] = c /\ y[4] = d /\ y[5] = e
  OBVIOUS
<1>. HIDE DEF x, y
<1>9. \A i \in 1 .. Len(x) : x[i] = y[i]
  BY <1>5, <1>6, <1>7, <1>8
<1>10. x = y
  BY <1>3, <1>4, <1>5, <1>9, SeqEqual
<1>. QED  BY <1>10 DEF x, y

\* Sequences of statements, taken from the back.
LEMMA Associative ==
  ASSUME NEW a \in Seq(Statement), NEW b \in Seq(Statement), NEW c \in Seq(Statement)
  PROVE  (a \o b) \o c = a \o (b \o c)
BY ConcatAssociative

\* Two and three statements in front of those that follow them.
LEMMA OnBeforeTwo ==
  ASSUME NEW l \in Label \ {"open"}, After(l) \in Label \ {"open"},
         NEW s \in Seq(Statement), On(After(After(l)), s)
  PROVE  On(l, <<Op(l), Op(After(l))>> \o s)
<1>. DEFINE a == <<Op(l)>>
            b == <<Op(After(l))>>
            ab == <<Op(l), Op(After(l))>>
<1>1. Op(l) \in Statement /\ Op(After(l)) \in Statement
  BY DEF Statement
<1>2. a \in Seq(Statement) /\ b \in Seq(Statement)
  BY <1>1, Pair
<1>3. ab = a \o b
  BY <1>1, Pair
<1>4. On(After(l), b \o s)
  BY OnBefore
<1>5. On(l, a \o (b \o s))
  BY <1>4, OnBefore
<1>. HIDE DEF a, b, ab
<1>6. ab \o s = a \o (b \o s)
  BY <1>2, <1>3, Associative
<1>. QED  BY <1>5, <1>6 DEF ab
LEMMA OnBeforeThree ==
  ASSUME NEW l \in Label \ {"open"}, After(l) \in Label \ {"open"},
         After(After(l)) \in Label \ {"open"},
         NEW s \in Seq(Statement), On(After(After(After(l))), s)
  PROVE  On(l, <<Op(l), Op(After(l)), Op(After(After(l)))>> \o s)
<1>. DEFINE a == <<Op(l)>>
            b == <<Op(After(l)), Op(After(After(l)))>>
            ab == <<Op(l), Op(After(l)), Op(After(After(l)))>>
<1>1. /\ Op(l) \in Statement /\ Op(After(l)) \in Statement
      /\ Op(After(After(l))) \in Statement
  BY DEF Statement
<1>2. a \in Seq(Statement) /\ b \in Seq(Statement)
  BY <1>1, Pair
<1>3. ab = a \o b
  BY <1>1, Triple
<1>4. On(After(l), b \o s)
  BY OnBeforeTwo
<1>5. On(l, a \o (b \o s))
  BY <1>4, OnBefore
<1>. HIDE DEF a, b, ab
<1>6. ab \o s = a \o (b \o s)
  BY <1>2, <1>3, Associative
<1>. QED  BY <1>5, <1>6 DEF ab

-----------------------------------------------------------------------------
(* The code's sequences follow the labels *)

\* Four sequences, from the back.
LEMMA Regroup ==
  ASSUME NEW a \in Seq(Statement), NEW b \in Seq(Statement), NEW c \in Seq(Statement),
         NEW d \in Seq(Statement), NEW s, s = (a \o b) \o c
  PROVE  s \o d = a \o (b \o (c \o d)) /\ s \in Seq(Statement)
<1>. DEFINE ab == a \o b
            cd == c \o d
<1>1. ab \in Seq(Statement)
  BY ConcatProperties
<1>2. cd \in Seq(Statement)
  BY ConcatProperties
<1>3. ab \o cd = a \o (b \o cd)
  <2>. HIDE DEF cd
  <2>. QED  BY <1>2, Associative
<1>4. (ab \o c) \o d = ab \o cd /\ ab \o c \in Seq(Statement)
  <2>. HIDE DEF ab
  <2>1. ab \o c \in Seq(Statement)
    BY <1>1, ConcatProperties
  <2>2. (ab \o c) \o d = ab \o cd
    BY <1>1, Associative
  <2>. QED  BY <2>1, <2>2
<1>. QED  BY <1>3, <1>4

\* A handler behind the taking of its message's key.
LEMMA TakingPath ==
  ASSUME NEW l \in Take, NEW h \in Seq(Statement), On(After(l), h \o <<OpenReceive>>)
  PROVE  On(l, <<MoveCap(k0, k_saved_reply)>> \o h \o <<OpenReceive>>)
<1>. DEFINE a == <<MoveCap(k0, k_saved_reply)>>
            b == <<OpenReceive>>
<1>1. l \in Label \ {"open"} /\ Op(l) = MoveCap(k0, k_saved_reply)
  BY DEF Take, Label, Op, Line
<1>2. "open" \in Label /\ Op("open") = OpenReceive
  BY DEF Label, Op, Line
<1>3. Op(l) \in Statement /\ OpenReceive \in Statement
  BY <1>1, <1>2 DEF Statement
<1>4. a \in Seq(Statement)
  BY <1>1, <1>3
<1>5. b \in Seq(Statement)
  BY <1>3
<1>6. On(l, a \o (h \o b))
  BY <1>1, OnBefore
<1>. HIDE DEF a, b
<1>7. a \o h \o b = a \o (h \o b)
  BY <1>4, <1>5, Associative
<1>. QED  BY <1>6, <1>7 DEF a, b

\* The answer to the caller, and the next receive.
LEMMA ReplyPath ==
  /\ On("reply", reply \o <<OpenReceive>>)
  /\ reply \in Seq(Statement) /\ <<OpenReceive>> \in Seq(Statement)
  /\ reply \o <<OpenReceive>> \in Seq(Statement)
<1>1. /\ "reply" \in Label \ {"open"} /\ Op("reply") = Send(k_saved_reply) /\ After("reply") = "open"
      /\ "open" \in Label /\ Op("open") = OpenReceive
  BY DEF Label, Op, After, Line
<1>2. On("reply", reply \o <<OpenReceive>>)
  BY <1>1, OnOpen, OnBefore DEF reply
<1>3. Send(k_saved_reply) \in Statement /\ OpenReceive \in Statement
  BY <1>1 DEF Statement
<1>4. reply \in Seq(Statement)
  BY <1>3 DEF reply
<1>5. <<OpenReceive>> \in Seq(Statement)
  BY <1>3
<1>. QED  BY <1>2, <1>4, <1>5, ConcatProperties

\* The handlers.
LEMMA Send1Path ==
  /\ On("send1_write", do_send1 \o <<OpenReceive>>)
  /\ do_send1 \in Seq(Statement) /\ do_send1 # << >>
<1>. DEFINE a == <<Write("dr"), Mask(p_tx)>>
            b == Enable("txe")
            d == <<OpenReceive>>
<1>1. /\ Op("send1_write") = Write("dr") /\ After("send1_write") = "send1_mask"
      /\ Op("send1_mask") = Mask(p_tx) /\ After("send1_mask") = "send1_cr1"
      /\ {"send1_write", "send1_mask"} \subseteq Label \ {"open"}
  BY DEF Op, After, Line, Label, Send1
<1>2. /\ Op("send1_cr1") = Read("cr1") /\ After("send1_cr1") = "send1_set"
      /\ Op("send1_set") = SetCopy({"txe"}, {}) /\ After("send1_set") = "send1_on"
      /\ Op("send1_on") = Write("cr1") /\ After("send1_on") = "reply"
      /\ {"send1_cr1", "send1_set", "send1_on"} \subseteq Label \ {"open"}
  BY DEF Op, After, Line, Label, Send1
<1>3. /\ {Write("dr"), Mask(p_tx)} \subseteq Statement
      /\ {Read("cr1"), SetCopy({"txe"}, {}), Write("cr1")} \subseteq Statement
  BY <1>1, <1>2 DEF Statement
<1>4. a \in Seq(Statement)
  BY <1>3, Pair
<1>5. b \in Seq(Statement)
  BY <1>3, Triple DEF Enable
<1>6. b \o (reply \o d) \in Seq(Statement) /\ reply \o d \in Seq(Statement)
  BY <1>5, ReplyPath, ConcatProperties
<1>7. On("send1_cr1", b \o (reply \o d))
  BY <1>2, <1>6, ReplyPath, OnBeforeThree DEF Enable
<1>8. On("send1_write", a \o (b \o (reply \o d)))
  BY <1>1, <1>6, <1>7, OnBeforeTwo
<1>. HIDE DEF a, b, d
<1>9. do_send1 = a \o b \o reply
  BY DEF do_send1, a, b
<1>10. do_send1 \o d = a \o (b \o (reply \o d)) /\ do_send1 \in Seq(Statement)
  <2>1. reply \in Seq(Statement) /\ d \in Seq(Statement)
    BY ReplyPath DEF d
  <2>. QED  BY <1>4, <1>5, <1>9, <2>1, Regroup
<1>11. do_send1 # << >>
  BY <1>4, <1>5, <1>9, ReplyPath, ConcatProperties, EmptySeq, LenProperties DEF reply
<1>. QED  BY <1>8, <1>10, <1>11 DEF d

LEMMA FlushPath ==
  /\ On("flush_read", do_flush \o <<OpenReceive>>)
  /\ do_flush \in Seq(Statement) /\ do_flush # << >>
<1>. DEFINE b == Enable("tc")
            c == <<Mask(p_tx), MoveCap(k_saved_reply, k_flush_reply), SetFlush(TRUE)>>
            d == <<OpenReceive>>
<1>1. /\ Op("flush_mask") = Mask(p_tx) /\ After("flush_mask") = "flush_move"
      /\ Op("flush_move") = MoveCap(k_saved_reply, k_flush_reply)
      /\ After("flush_move") = "flush_begin"
      /\ Op("flush_begin") = SetFlush(TRUE) /\ After("flush_begin") = "open"
      /\ {"flush_mask", "flush_move", "flush_begin"} \subseteq Label \ {"open"}
  BY DEF Op, After, Line, Label, Flush
<1>2. /\ Op("flush_read") = Read("cr1") /\ After("flush_read") = "flush_set"
      /\ Op("flush_set") = SetCopy({"tc"}, {}) /\ After("flush_set") = "flush_on"
      /\ Op("flush_on") = Write("cr1") /\ After("flush_on") = "flush_mask"
      /\ {"flush_read", "flush_set", "flush_on"} \subseteq Label \ {"open"}
  BY DEF Op, After, Line, Label, Flush
<1>3. /\ {Mask(p_tx), MoveCap(k_saved_reply, k_flush_reply), SetFlush(TRUE)} \subseteq Statement
      /\ {Read("cr1"), SetCopy({"tc"}, {}), Write("cr1")} \subseteq Statement
  BY <1>1, <1>2 DEF Statement
<1>4. c \in Seq(Statement)
  BY <1>3, Triple
<1>5. b \in Seq(Statement)
  BY <1>3, Triple DEF Enable
<1>6. d \in Seq(Statement) /\ On("open", d)
  BY ReplyPath, OnOpen
<1>7. On("flush_mask", c \o d)
  BY <1>1, <1>6, OnBeforeThree
<1>8. c \o d \in Seq(Statement)
  BY <1>4, <1>6, ConcatProperties
<1>9. On("flush_read", b \o (c \o d))
  BY <1>2, <1>7, <1>8, OnBeforeThree DEF Enable
<1>10. Len(c) = 3
  OBVIOUS
<1>. HIDE DEF b, c, d
<1>11. do_flush = b \o c
  BY DEF do_flush, b, c
<1>12. (b \o c) \o d = b \o (c \o d)
  BY <1>4, <1>5, <1>6, Associative
<1>13. b \o c \in Seq(Statement) /\ b \o c # << >>
  BY <1>4, <1>5, <1>10, ConcatProperties, EmptySeq, LenProperties
<1>. QED  BY <1>9, <1>11, <1>12, <1>13 DEF d
LEMMA Recv1Path ==
  /\ On("recv1_read", do_recv1 \o <<OpenReceive>>)
  /\ do_recv1 \in Seq(Statement) /\ do_recv1 # << >>
<1>. DEFINE a == <<Read("dr"), Mask(p_rx)>>
            b == Enable("rxne")
            d == <<OpenReceive>>
<1>1. /\ Op("recv1_read") = Read("dr") /\ After("recv1_read") = "recv1_mask"
      /\ Op("recv1_mask") = Mask(p_rx) /\ After("recv1_mask") = "recv1_cr1"
      /\ {"recv1_read", "recv1_mask"} \subseteq Label \ {"open"}
  BY DEF Op, After, Line, Label, Recv1
<1>2. /\ Op("recv1_cr1") = Read("cr1") /\ After("recv1_cr1") = "recv1_set"
      /\ Op("recv1_set") = SetCopy({"rxne"}, {}) /\ After("recv1_set") = "recv1_on"
      /\ Op("recv1_on") = Write("cr1") /\ After("recv1_on") = "reply"
      /\ {"recv1_cr1", "recv1_set", "recv1_on"} \subseteq Label \ {"open"}
  BY DEF Op, After, Line, Label, Recv1
<1>3. /\ {Read("dr"), Mask(p_rx)} \subseteq Statement
      /\ {Read("cr1"), SetCopy({"rxne"}, {}), Write("cr1")} \subseteq Statement
  BY <1>1, <1>2 DEF Statement
<1>4. a \in Seq(Statement)
  BY <1>3, Pair
<1>5. b \in Seq(Statement)
  BY <1>3, Triple DEF Enable
<1>6. b \o (reply \o d) \in Seq(Statement) /\ reply \o d \in Seq(Statement)
  BY <1>5, ReplyPath, ConcatProperties
<1>7. On("recv1_cr1", b \o (reply \o d))
  BY <1>2, <1>6, ReplyPath, OnBeforeThree DEF Enable
<1>8. On("recv1_read", a \o (b \o (reply \o d)))
  BY <1>1, <1>6, <1>7, OnBeforeTwo
<1>. HIDE DEF a, b, d
<1>9. do_recv1 = a \o b \o reply
  BY DEF do_recv1, a, b
<1>10. do_recv1 \o d = a \o (b \o (reply \o d)) /\ do_recv1 \in Seq(Statement)
  <2>1. reply \in Seq(Statement) /\ d \in Seq(Statement)
    BY ReplyPath DEF d
  <2>. QED  BY <1>4, <1>5, <1>9, <2>1, Regroup
<1>11. do_recv1 # << >>
  BY <1>4, <1>5, <1>9, ReplyPath, ConcatProperties, EmptySeq, LenProperties DEF reply
<1>. QED  BY <1>8, <1>10, <1>11 DEF d
LEMMA IrqPath ==
  /\ On("irq_sr", handle_irq \o <<OpenReceive>>)
  /\ handle_irq \in Seq(Statement) /\ handle_irq # << >>
<1>. DEFINE a == <<Read("sr"), Read("cr1"), If("txe")>>
            b == <<If("rxne"), If("tc")>>
            d == <<OpenReceive>>
<1>1. /\ Op("irq_sr") = Read("sr") /\ After("irq_sr") = "irq_cr1"
      /\ Op("irq_cr1") = Read("cr1") /\ After("irq_cr1") = "irq_txe"
      /\ Op("irq_txe") = If("txe") /\ After("irq_txe") = "irq_rxne"
      /\ {"irq_sr", "irq_cr1", "irq_txe"} \subseteq Label \ {"open"}
  BY DEF Op, After, Line, Label, OnIrq
<1>2. /\ Op("irq_rxne") = If("rxne") /\ After("irq_rxne") = "irq_tc"
      /\ Op("irq_tc") = If("tc") /\ After("irq_tc") = "reply"
      /\ {"irq_rxne", "irq_tc"} \subseteq Label \ {"open"}
  BY DEF Op, After, Line, Label, OnIrq
<1>3. /\ {Read("sr"), Read("cr1"), If("txe")} \subseteq Statement
      /\ {If("rxne"), If("tc")} \subseteq Statement
  BY <1>1, <1>2 DEF Statement
<1>4. a \in Seq(Statement)
  BY <1>3, Triple
<1>5. b \in Seq(Statement)
  BY <1>3, Pair
<1>6. b \o (reply \o d) \in Seq(Statement) /\ reply \o d \in Seq(Statement)
  BY <1>5, ReplyPath, ConcatProperties
<1>7. On("irq_rxne", b \o (reply \o d))
  BY <1>2, <1>6, ReplyPath, OnBeforeTwo
<1>8. On("irq_sr", a \o (b \o (reply \o d)))
  BY <1>1, <1>6, <1>7, OnBeforeThree
<1>9. <<Read("sr"), Read("cr1"), If("txe"), If("rxne"), If("tc")>> = a \o b
  BY <1>3, Quintuple
<1>. HIDE DEF a, b, d
<1>10. handle_irq = a \o b \o reply
  BY <1>9 DEF handle_irq
<1>11. handle_irq \o d = a \o (b \o (reply \o d)) /\ handle_irq \in Seq(Statement)
  <2>1. reply \in Seq(Statement) /\ d \in Seq(Statement)
    BY ReplyPath DEF d
  <2>. QED  BY <1>4, <1>5, <1>10, <2>1, Regroup
<1>12. handle_irq # << >>
  BY <1>4, <1>5, <1>10, ReplyPath, ConcatProperties, EmptySeq, LenProperties DEF reply
<1>. QED  BY <1>8, <1>11, <1>12 DEF d

\* What is left to do when a message has come.
LEMMA HandlerPath ==
  ASSUME NEW port \in {p_mon, p_tx, p_irq, p_rx}, NEW tag \in 0 .. 2
  PROVE  /\ Taking(port, tag) \in Take
         /\ On(Taking(port, tag),
               <<MoveCap(k0, k_saved_reply)>> \o Handler(port, tag) \o <<OpenReceive>>)
         /\ Handler(port, tag) = << >> <=> Taking(port, tag) = "take_other"
<1>. DEFINE l == Taking(port, tag)
            h == Handler(port, tag)
<1>01. \/ l = "take_mon" /\ h = reply
       \/ l = "take_send1" /\ h = do_send1
       \/ l = "take_flush" /\ h = do_flush
       \/ l = "take_irq" /\ h = handle_irq
       \/ l = "take_recv1" /\ h = do_recv1
       \/ l = "take_other" /\ h = << >>
  <2>1. CASE port = p_mon
    BY <2>1 DEF Taking, Handler, handle_mon, p_mon, p_tx, p_irq, p_rx
  <2>2. CASE port = p_tx
    BY <2>2 DEF Taking, Handler, handle_tx, p_mon, p_tx, p_irq, p_rx
  <2>3. CASE port = p_irq
    BY <2>3 DEF Taking, Handler, p_mon, p_tx, p_irq, p_rx
  <2>4. CASE port = p_rx /\ tag = 0
    BY <2>4 DEF Taking, Handler, handle_rx, p_mon, p_tx, p_irq, p_rx
  <2>5. CASE port = p_rx /\ tag # 0
    BY <2>5 DEF Taking, Handler, handle_rx, p_mon, p_tx, p_irq, p_rx
  <2>. QED  BY <2>1, <2>2, <2>3, <2>4, <2>5
<1>. HIDE DEF l, h
<1>02. /\ After("take_mon") = "reply" /\ After("take_send1") = "send1_write"
       /\ After("take_flush") = "flush_read" /\ After("take_irq") = "irq_sr"
       /\ After("take_recv1") = "recv1_read" /\ After("take_other") = "open"
  <2>1. After("take_mon") = "reply"
    BY Zenon DEF After, Line
  <2>2. After("take_send1") = "send1_write"
    BY Zenon DEF After, Line
  <2>3. After("take_flush") = "flush_read"
    BY Zenon DEF After, Line
  <2>4. After("take_irq") = "irq_sr"
    BY Zenon DEF After, Line
  <2>5. After("take_recv1") = "recv1_read"
    BY Zenon DEF After, Line
  <2>6. After("take_other") = "open"
    BY Zenon DEF After, Line
  <2>. QED  BY <2>1, <2>2, <2>3, <2>4, <2>5, <2>6
<1>0. /\ l \in Take
      /\ \/ l = "take_mon" /\ h = reply /\ After(l) = "reply"
         \/ l = "take_send1" /\ h = do_send1 /\ After(l) = "send1_write"
         \/ l = "take_flush" /\ h = do_flush /\ After(l) = "flush_read"
         \/ l = "take_irq" /\ h = handle_irq /\ After(l) = "irq_sr"
         \/ l = "take_recv1" /\ h = do_recv1 /\ After(l) = "recv1_read"
         \/ l = "take_other" /\ h = << >> /\ After(l) = "open"
  BY <1>01, <1>02 DEF Take
<1>1. reply # << >>
  BY DEF reply
<1>2. << >> \in Seq(Statement) /\ << >> \o <<OpenReceive>> = <<OpenReceive>>
  BY ReplyPath, EmptySeq, ConcatEmptySeq
<1>3. On(After(l), h \o <<OpenReceive>>) /\ h \in Seq(Statement)
  BY <1>0, <1>2, ReplyPath, Send1Path, FlushPath, Recv1Path, IrqPath, OnOpen
<1>4. On(l, <<MoveCap(k0, k_saved_reply)>> \o h \o <<OpenReceive>>)
  BY <1>0, <1>3, TakingPath
<1>5. h = << >> <=> l = "take_other"
  BY <1>0, <1>1, Send1Path, FlushPath, Recv1Path, IrqPath
<1>. QED  BY <1>0, <1>4, <1>5 DEF l, h

\* What handle_irq does for each bit.  No TXE interrupt is enabled during a
\* flush.
LEMMA Branches ==
  ASSUME NEW bit
  PROVE  /\ bit = "txe" /\ ~ flushing => OnBit(bit) = Disable("txe") \o <<Unmask(p_tx)>>
         /\ bit = "rxne" => OnBit(bit) = Disable("rxne") \o <<Unmask(p_rx)>>
         /\ bit = "tc" =>
              OnBit(bit) = Disable("tc") \o <<Send(k_flush_reply), SetFlush(FALSE), Unmask(p_tx)>>
<1>1. ASSUME bit = "txe", ~ flushing
      PROVE  OnBit(bit) = Disable("txe") \o <<Unmask(p_tx)>>
  BY <1>1 DEF OnBit
<1>2. ASSUME bit = "rxne"
      PROVE  OnBit(bit) = Disable("rxne") \o <<Unmask(p_rx)>>
  BY <1>2 DEF OnBit
<1>3. ASSUME bit = "tc"
      PROVE  OnBit(bit) = Disable("tc") \o <<Send(k_flush_reply), SetFlush(FALSE), Unmask(p_tx)>>
  BY <1>3 DEF OnBit
<1>. QED  BY <1>1, <1>2, <1>3

\* What is left to do when a bit is set and enabled: its branch, and the test
\* of the next bit.
LEMMA BranchPath ==
  ASSUME NEW s
  PROVE  /\ On("irq_rxne", s) /\ ~ flushing => On("txe_set", OnBit("txe") \o s)
         /\ On("irq_tc", s) => On("rxne_set", OnBit("rxne") \o s)
         /\ On("reply", s) => On("tc_set", OnBit("tc") \o s)
<1>1. ASSUME NEW l, NEW t, On(l, t)
      PROVE  t \in Seq(Statement)
  BY <1>1 DEF On, Path, Statement
<1>2. ASSUME On("irq_rxne", s), ~ flushing
      PROVE  On("txe_set", OnBit("txe") \o s)
  <2>. DEFINE a == Disable("txe")
              b == <<Unmask(p_tx)>>
  <2>1. /\ Op("txe_set") = SetCopy({}, {"txe"}) /\ After("txe_set") = "txe_off"
        /\ Op("txe_off") = Write("cr1") /\ After("txe_off") = "txe_unmask"
        /\ Op("txe_unmask") = Unmask(p_tx) /\ After("txe_unmask") = "irq_rxne"
        /\ OnTxe \subseteq Label \ {"open"}
    BY DEF Op, After, Line, Label, OnTxe
  <2>2. {SetCopy({}, {"txe"}), Write("cr1"), Unmask(p_tx)} \subseteq Statement
    BY <2>1 DEF Statement, OnTxe
  <2>3. a \in Seq(Statement)
    BY <2>2, Pair DEF Disable
  <2>4. b \in Seq(Statement)
    BY <2>2
  <2>5. On("txe_unmask", b \o s)
    BY <1>2, <2>1, OnBefore DEF OnTxe
  <2>6. b \o s \in Seq(Statement)
    BY <2>5, <1>1
  <2>7. On("txe_set", a \o (b \o s))
    BY <2>1, <2>5, <2>6, OnBeforeTwo DEF Disable, OnTxe
  <2>. HIDE DEF a, b
  <2>8. OnBit("txe") = a \o b
    BY <1>2, Branches DEF a, b
  <2>9. s \in Seq(Statement)
    BY <1>1, <1>2
  <2>10. (a \o b) \o s = a \o (b \o s)
    BY <2>3, <2>4, <2>9, Associative
  <2>. QED  BY <2>7, <2>8, <2>10
<1>3. ASSUME On("irq_tc", s)
      PROVE  On("rxne_set", OnBit("rxne") \o s)
  <2>. DEFINE a == Disable("rxne")
              b == <<Unmask(p_rx)>>
  <2>1. /\ Op("rxne_set") = SetCopy({}, {"rxne"}) /\ After("rxne_set") = "rxne_off"
        /\ Op("rxne_off") = Write("cr1") /\ After("rxne_off") = "rxne_unmask"
        /\ Op("rxne_unmask") = Unmask(p_rx) /\ After("rxne_unmask") = "irq_tc"
        /\ OnRxne \subseteq Label \ {"open"}
    BY DEF Op, After, Line, Label, OnRxne
  <2>2. {SetCopy({}, {"rxne"}), Write("cr1"), Unmask(p_rx)} \subseteq Statement
    BY <2>1 DEF Statement, OnRxne
  <2>3. a \in Seq(Statement)
    BY <2>2, Pair DEF Disable
  <2>4. b \in Seq(Statement)
    BY <2>2
  <2>5. On("rxne_unmask", b \o s)
    BY <1>3, <2>1, OnBefore DEF OnRxne
  <2>6. b \o s \in Seq(Statement)
    BY <2>5, <1>1
  <2>7. On("rxne_set", a \o (b \o s))
    BY <2>1, <2>5, <2>6, OnBeforeTwo DEF Disable, OnRxne
  <2>. HIDE DEF a, b
  <2>8. OnBit("rxne") = a \o b
    BY Branches DEF a, b
  <2>9. s \in Seq(Statement)
    BY <1>1, <1>3
  <2>10. (a \o b) \o s = a \o (b \o s)
    BY <2>3, <2>4, <2>9, Associative
  <2>. QED  BY <2>7, <2>8, <2>10
<1>4. ASSUME On("reply", s)
      PROVE  On("tc_set", OnBit("tc") \o s)
  <2>. DEFINE a == Disable("tc")
              b == <<Send(k_flush_reply), SetFlush(FALSE), Unmask(p_tx)>>
  <2>1. /\ Op("tc_set") = SetCopy({}, {"tc"}) /\ After("tc_set") = "tc_off"
        /\ Op("tc_off") = Write("cr1") /\ After("tc_off") = "tc_reply"
        /\ Op("tc_reply") = Send(k_flush_reply) /\ After("tc_reply") = "tc_end"
        /\ Op("tc_end") = SetFlush(FALSE) /\ After("tc_end") = "tc_unmask"
        /\ Op("tc_unmask") = Unmask(p_tx) /\ After("tc_unmask") = "reply"
        /\ OnTc \subseteq Label \ {"open"}
    BY DEF Op, After, Line, Label, OnTc
  <2>2. /\ {SetCopy({}, {"tc"}), Write("cr1")} \subseteq Statement
        /\ {Send(k_flush_reply), SetFlush(FALSE), Unmask(p_tx)} \subseteq Statement
    BY <2>1 DEF Statement, OnTc
  <2>3. a \in Seq(Statement)
    BY <2>2, Pair DEF Disable
  <2>4. b \in Seq(Statement)
    BY <2>2, Triple
  <2>5. s \in Seq(Statement)
    BY <1>1, <1>4
  <2>6. On("tc_reply", b \o s)
    BY <1>4, <2>1, <2>5, OnBeforeThree DEF OnTc
  <2>7. b \o s \in Seq(Statement)
    BY <2>6, <1>1
  <2>8. On("tc_set", a \o (b \o s))
    BY <2>1, <2>6, <2>7, OnBeforeTwo DEF Disable, OnTc
  <2>. HIDE DEF a, b
  <2>9. OnBit("tc") = a \o b
    BY Branches DEF a, b
  <2>10. (a \o b) \o s = a \o (b \o s)
    BY <2>3, <2>4, <2>5, Associative
  <2>. QED  BY <2>8, <2>9, <2>10
<1>. QED  BY <1>2, <1>3, <1>4

-----------------------------------------------------------------------------
(* How control moves *)

\* What holds where the next effect is.
Holds(l) == Transmitter(l) /\ Copies(l) /\ Callers(l)

\* Answers are not nothing, and neither are calls.
LEMMA PipesDiffer ==
  /\ Complete # Nothing
  /\ \A v : [type |-> "message", value |-> v] # Nothing
  /\ \A p, t : [type |-> "message", port |-> p, tag |-> t] # Nothing
<1>1. Complete # Nothing
  BY DEF Complete, Nothing
<1>2. \A v : [type |-> "message", value |-> v] # Nothing
  BY DEF Nothing
<1>3. \A p, t : [type |-> "message", port |-> p, tag |-> t] # Nothing
  BY DEF Nothing
<1>. QED  BY <1>1, <1>2, <1>3

\* A call in the pipe is that of the server's place, and waits for its effect.
LEMMA CallMade ==
  ASSUME NEW l \in Label, Here(l), NEW op \in SystemCall, Incoming(op)
  PROVE  /\ request = Op(l) /\ Op(l).op = op
         /\ response = Nothing
         /\ Holds(l)
<1>1. request # Nothing
  BY DEF Incoming, Nothing, SystemCall
<1>. QED  BY <1>1 DEF Here, Pipes, Incoming, Place, Holds

\* The test answers a call that gets no message, after it has taken effect.
LEMMA Completes ==
  ASSUME NEW l \in Label, Here(l), request = Op(l), Answer(Complete), todo' = todo,
         Op(l).op \in {"copy_cap", "mask_port", "unmask_port", "send"},
         Holds(After(l))'
  PROVE  Here(l)'
<1>1. response' = Complete /\ request' = Nothing /\ response' # Nothing
  BY PipesDiffer DEF Answer
<1>2. l # "open"
  BY DEF Op, Line, OpenReceive
<1>3. Place(l)' = After(l)
  BY <1>1, <1>2 DEF Place
<1>4. Pipes(l)'
  BY <1>1 DEF Pipes
<1>. QED  BY <1>3, <1>4 DEF Here, Holds

\* The server is at a statement of its own, with empty pipes.
LEMMA StatementReached ==
  ASSUME NEW l \in Label, Here(l), NEW op, At(op)
  PROVE  /\ Op(l).op = op /\ Head(todo) = Op(l)
         /\ Holds(l)
         /\ Cr1Copy = cr1_read /\ SrCopy = sr_read
         /\ l # "open" => On(After(l), Tail(todo)) /\ After(l) \in Label
<1>1. Head(todo) = Op(l) /\ (l # "open" => On(After(l), Tail(todo)))
  BY OnTail DEF Here
<1>. QED  BY <1>1, Statements DEF Here, At, Holds, Place, Cr1Copy, SrCopy

\* It goes on, with empty pipes, to any place whose conditions hold.
LEMMA GoesOn ==
  ASSUME NEW l \in Label, On(l, todo'), request' = Nothing, response' = Nothing, Holds(l)'
  PROVE  Here(l)'
<1>1. Pipes(l)' /\ Place(l)' = l
  BY DEF Pipes, Place
<1>2. On(l, todo)'
  BY DEF On, Path
<1>. QED  BY <1>1, <1>2 DEF Here, Holds

-----------------------------------------------------------------------------
(* Calls and their answers *)

\* A call that is written changes nothing else.
LEMMA IssueCallKeeps ==
  ASSUME NEW l \in Label, Here(l), IssueCall, UNCHANGED <<serverVars, usartVars, owed>>
  PROVE  Here(l)'
<1>1. PICK op \in SystemCall : At(op)
  BY DEF IssueCall, SystemCall
<1>2. request' = Op(l) /\ Op(l).op = op /\ response = Nothing /\ response' = Nothing
  BY <1>1, StatementReached DEF IssueCall, At
<1>3. Pipes(l)'
  BY <1>2 DEF Pipes
<1>4. UNCHANGED <<todo, response, clist, masked_ports, cr1_read, sr_read, flushing, sr, cr1, owed>>
  BY DEF IssueCall, taskVars, serverVars, usartVars
<1>5. Place(l)' = Place(l)
  BY <1>4 DEF Place
<1>6. Transmitter(Place(l))'
  BY <1>4, <1>5 DEF Here, Transmitter, Rest, Free, Sending, Flushing, Empty, Tx
<1>7. Copies(Place(l))'
  BY <1>4, <1>5 DEF Here, Copies, Cr1Copy, SrCopy
<1>8. Callers(Place(l))'
  BY <1>4, <1>5 DEF Here, Callers, Owed, FlushOwed
<1>. QED  BY <1>3, <1>4, <1>5, <1>6, <1>7, <1>8 DEF Here, On, Path

\* The answer to a call that gets no message is read, and control goes on.
LEMMA CompletedGoesOn ==
  ASSUME NEW l \in Label, Here(l), Completed, UNCHANGED <<serverVars, usartVars, owed>>
  PROVE  After(l) \in Label /\ Here(After(l))'
<1>1. /\ response # Nothing /\ response.type = "complete" /\ response' = Nothing
      /\ todo' = Tail(todo)
      /\ Head(todo).op \in {"copy_cap", "mask_port", "unmask_port", "send"}
      /\ UNCHANGED <<request, clist, masked_ports, cr1_read, sr_read, flushing, sr, cr1, owed>>
  BY DEF Completed, Returns, taskVars, serverVars, usartVars
<1>2. Head(todo) = Op(l)
  BY OnTail DEF Here
<1>3. l # "open" /\ request = Nothing
  BY <1>1, <1>2 DEF Here, Pipes, Op, Line, OpenReceive
<1>4. On(After(l), todo') /\ After(l) \in Label
  BY <1>1, <1>3, OnTail, Statements DEF Here
<1>5. Holds(After(l))
  BY <1>1, <1>3 DEF Here, Holds, Place
<1>6. Cr1Copy = cr1_read /\ SrCopy = sr_read
  BY <1>1, <1>2 DEF Cr1Copy, SrCopy, Read
<1>7. Cr1Copy' = cr1_read /\ SrCopy' = sr_read
  BY <1>1 DEF Cr1Copy, SrCopy
<1>8. Holds(After(l))'
  BY <1>1, <1>5, <1>6, <1>7 DEF Holds, Transmitter, Rest, Free, Sending, Flushing, Empty, Tx, Copies,
       Callers, Owed, FlushOwed
<1>. QED  BY <1>1, <1>3, <1>4, <1>8, GoesOn

\* The key registers that the server names are different.
LEMMA KeyIndices ==
  /\ k0 \in KeyIndex /\ k_saved_reply \in KeyIndex
  /\ k_flush_reply \in KeyIndex /\ k_reg \in KeyIndex
  /\ k0 # k_saved_reply /\ k0 # k_flush_reply /\ k0 # k_reg
  /\ k_saved_reply # k_flush_reply /\ k_saved_reply # k_reg /\ k_flush_reply # k_reg
<1>1. /\ k0 \in KeyIndex /\ k_saved_reply \in KeyIndex
      /\ k_flush_reply \in KeyIndex /\ k_reg \in KeyIndex
  BY SimAssumption
<1>. QED  BY <1>1 DEF k0, k_saved_reply, k_flush_reply, k_reg

\* A call other than a read takes effect without a copy of a register changing.
LEMMA CopiesAside ==
  ASSUME NEW l \in Label, Here(l), todo' = todo, Op(l).op # "call",
         UNCHANGED <<cr1_read, sr_read>>
  PROVE  Cr1Copy = cr1_read /\ SrCopy = sr_read /\ Cr1Copy' = cr1_read /\ SrCopy' = sr_read
<1>1. Head(todo) = Op(l)
  BY OnTail DEF Here
<1>2. Op(l) # Read("cr1") /\ Op(l) # Read("sr")
  BY DEF Read
<1>. QED  BY <1>1, <1>2 DEF Cr1Copy, SrCopy

\* copy_cap: the key of the message is saved, or that of a flush is.
LEMMA CopyCapKeeps ==
  ASSUME NEW l \in Label, Here(l), DOMAIN clist = KeyIndex, clist[k_reg] = "hw",
         CopyCap, UNCHANGED <<serverVars, usartVars, owed>>
  PROVE  Here(l)' /\ DOMAIN clist' = KeyIndex /\ clist'[k_reg] = "hw"
<1>1. /\ request = Op(l) /\ Op(l).op = "copy_cap" /\ response = Nothing
      /\ Holds(l)
  BY CallMade DEF CopyCap, SystemCall
<1>2. /\ clist' = [[clist EXCEPT ![request.to] = clist[request.from]] EXCEPT ![request.from] = ""]
      /\ UNCHANGED <<todo, masked_ports, cr1_read, sr_read, flushing, sr, cr1, owed>>
      /\ Answer(Complete)
  BY DEF CopyCap, serverVars, usartVars
<1>. DEFINE moved == [clist EXCEPT ![request.to] = clist[request.from]]
<1>7. /\ clist' = [moved EXCEPT ![request.from] = ""]
      /\ DOMAIN moved = KeyIndex /\ DOMAIN clist' = KeyIndex
  BY <1>2
<1>8. \A i \in KeyIndex :
        clist'[i] = IF i = request.from THEN ""
                    ELSE IF i = request.to THEN clist[request.from] ELSE clist[i]
  <2>1. \A i \in KeyIndex : moved[i] = IF i = request.to THEN clist[request.from] ELSE clist[i]
    OBVIOUS
  <2>. HIDE DEF moved
  <2>. QED  BY <1>7, <2>1
<1>. HIDE DEF moved
<1>5. CASE l \in Take
  <2>0. request.from = k0 /\ request.to = k_saved_reply
    <3>1. Op(l) = MoveCap(k0, k_saved_reply)
      BY <1>5 DEF Take, Op, Line
    <3>. QED  BY <1>1, <3>1 DEF MoveCap
  <2>1. /\ After(l) \in {"reply", "open", "send1_write", "flush_read", "recv1_read", "irq_sr"}
        /\ After(l) = "open" <=> l = "take_other"
        /\ After(l) \in {"send1_write", "flush_read"} <=> l \in {"take_send1", "take_flush"}
    BY <1>5 DEF Take, After, Line
  <2>2. /\ clist'[k_saved_reply] = clist[k0]
        /\ clist'[k_flush_reply] = clist[k_flush_reply]
        /\ clist'[k_reg] = clist[k_reg]
        /\ DOMAIN clist' = KeyIndex
    BY <1>7, <1>8, <2>0, KeyIndices
  <2>3. Transmitter(After(l))'
    BY <1>1, <1>2, <1>5, <2>1 DEF Holds, Transmitter, Take, Send1, Flush, Recv1, OnIrq, OnRxne, Rest, Free,
         Sending, Flushing, Empty, Tx
  <2>4. Copies(After(l))'
    BY <2>1 DEF Copies, OnIrq, OnTxe, OnRxne
  <2>5. Callers(After(l))'
    BY <1>1, <1>2, <1>5, <2>1, <2>2 DEF Holds, Callers, Owed, FlushOwed, Take, Send1, Flush, Recv1, OnIrq,
         OnTxe, OnRxne, OnTc
  <2>. QED  BY <1>1, <1>2, <2>2, <2>3, <2>4, <2>5, Completes DEF Holds
<1>6. CASE l = "flush_move"
  <2>1. /\ request.from = k_saved_reply /\ request.to = k_flush_reply
        /\ After(l) = "flush_begin"
    BY <1>1, <1>6 DEF Op, After, Line, MoveCap
  <2>2. /\ clist'[k_flush_reply] = clist[k_saved_reply]
        /\ clist'[k_reg] = clist[k_reg]
        /\ DOMAIN clist' = KeyIndex
    BY <1>7, <1>8, <2>1, KeyIndices
  <2>3. Transmitter(After(l))'
    BY <1>1, <1>2, <1>6, <2>1 DEF Holds, Transmitter, Take, Send1, Flush, Recv1, OnIrq, OnRxne, Rest, Free,
         Sending, Flushing, Empty, Tx
  <2>4. Copies(After(l))'
    BY <2>1 DEF Copies, OnIrq, OnTxe, OnRxne
  <2>5. Callers(After(l))'
    <3>1. Owed(k_saved_reply) /\ ~ flushing
      BY <1>1, <1>6 DEF Holds, Callers, Flush, Transmitter, Tx
    <3>. QED  BY <1>2, <2>1, <2>2, <3>1 DEF Callers, Owed, FlushOwed, Take, Send1, Flush, Recv1, OnIrq,
         OnTxe, OnRxne, OnTc
  <2>. QED  BY <1>1, <1>2, <2>2, <2>3, <2>4, <2>5, Completes DEF Holds
<1>. QED  BY <1>1, <1>5, <1>6, Statements

\* mask_port and unmask_port.  The transmit port closes for a character or a
\* flush and opens when their interrupts have come.
LEMMA PortKeeps ==
  ASSUME NEW l \in Label, Here(l), MaskPort \/ UnmaskPort,
         UNCHANGED <<serverVars, usartVars, owed>>
  PROVE  Here(l)' /\ UNCHANGED clist
<1>1. PICK op \in {"mask_port", "unmask_port"} :
        /\ request = Op(l) /\ Op(l).op = op /\ response = Nothing
        /\ masked_ports' = IF op = "mask_port" THEN masked_ports \cup {request.index}
                           ELSE masked_ports \ {request.index}
  <2>1. CASE MaskPort
    BY <2>1, CallMade DEF MaskPort, SystemCall
  <2>2. CASE UnmaskPort
    BY <2>2, CallMade DEF UnmaskPort, SystemCall
  <2>. QED  BY <2>1, <2>2
<1>2. /\ UNCHANGED <<todo, clist, cr1_read, sr_read, flushing, sr, cr1, owed>>
      /\ Answer(Complete)
      /\ Holds(l)
  BY <1>1 DEF MaskPort, UnmaskPort, serverVars, usartVars, Here, Holds, Place
<1>3. Cr1Copy = cr1_read /\ SrCopy = sr_read /\ Cr1Copy' = cr1_read /\ SrCopy' = sr_read
  BY <1>1, <1>2, CopiesAside
<1>4. l \in {"start", "send1_mask", "flush_mask", "recv1_mask", "txe_unmask", "rxne_unmask", "tc_unmask"}
  BY <1>1, Statements
<1>5. p_tx # p_rx
  BY DEF p_tx, p_rx
<1>6. Transmitter(After(l))'
  <2>1. CASE l \in {"start", "recv1_mask", "rxne_unmask"}
    <3>1. request.index = p_rx /\ After(l) \in {"open", "recv1_cr1", "irq_tc"}
      BY <1>1, <2>1 DEF Op, After, Line, Mask, Unmask
    <3>2. p_tx \in masked_ports' <=> p_tx \in masked_ports
      BY <1>1, <1>5, <3>1
    <3>. QED
      BY <1>2, <2>1, <3>1, <3>2 DEF Holds, Transmitter, Recv1, OnIrq, OnRxne, Rest, Free, Sending,
           Flushing, Empty, Tx
  <2>2. CASE l \in {"send1_mask", "flush_mask"}
    <3>1. /\ request.index = p_tx /\ Op(l).op = "mask_port"
          /\ l = "send1_mask" => After(l) = "send1_cr1"
          /\ l = "flush_mask" => After(l) = "flush_move"
      BY <1>1, <2>2 DEF Op, After, Line, Mask
    <3>2. p_tx \in masked_ports'
      BY <1>1, <3>1
    <3>. QED
      BY <1>2, <2>2, <3>1, <3>2 DEF Holds, Transmitter, Recv1, OnIrq, OnRxne, Rest, Free, Sending,
           Flushing, Empty, Tx
  <2>3. CASE l \in {"txe_unmask", "tc_unmask"}
    <3>1. /\ request.index = p_tx /\ Op(l).op = "unmask_port"
          /\ l = "txe_unmask" => After(l) = "irq_rxne"
          /\ l = "tc_unmask" => After(l) = "reply"
      BY <1>1, <2>3 DEF Op, After, Line, Unmask
    <3>2. p_tx \notin masked_ports'
      BY <1>1, <3>1
    <3>. QED
      BY <1>2, <2>3, <3>1, <3>2 DEF Holds, Transmitter, Recv1, OnIrq, OnRxne, Rest, Free, Sending,
           Flushing, Empty, Tx
  <2>. QED  BY <1>4, <2>1, <2>2, <2>3
<1>7. Copies(After(l))'
  <2>1. After(l) \in {"open", "send1_cr1", "flush_move", "recv1_cr1", "irq_rxne", "irq_tc", "reply"}
    BY <1>4 DEF After, Line
  <2>2. /\ After(l) = "irq_rxne" => l = "txe_unmask"
        /\ After(l) = "irq_tc" => l = "rxne_unmask"
    BY <1>4 DEF After, Line
  <2>. QED  BY <1>2, <1>3, <2>1, <2>2 DEF Holds, Copies, OnIrq, OnTxe, OnRxne
<1>8. Callers(After(l))'
  <2>1. CASE l = "start"
    <3>1. After(l) = "open"
      BY <2>1 DEF After, Line
    <3>. QED  BY <1>2, <2>1, <3>1 DEF Holds, Callers, FlushOwed, Owed, Take, Send1, Flush, Recv1, OnIrq,
                OnTxe, OnRxne, OnTc
  <2>2. CASE l # "start"
    <3>1. After(l) \in {"send1_cr1", "flush_move", "recv1_cr1", "irq_rxne", "irq_tc", "reply"}
      BY <1>4, <2>2 DEF After, Line
    <3>2. Owed(k_saved_reply) /\ (flushing => clist[k_flush_reply] \in Name)
      BY <1>2, <1>4, <2>2 DEF Holds, Callers, Send1, Flush, Recv1, OnTxe, OnRxne, OnTc
    <3>. QED  BY <1>2, <3>1, <3>2 DEF Callers, FlushOwed, Owed, Take, Send1, Flush, Recv1, OnIrq,
                OnTxe, OnRxne, OnTc
  <2>. QED  BY <2>1, <2>2
<1>. QED  BY <1>1, <1>2, <1>6, <1>7, <1>8, Completes DEF Holds

\* Whatever travels with a message leaves the keys that the server keeps alone.
LEMMA KeptKeys ==
  ASSUME NEW name, DOMAIN clist = KeyIndex,
         clist' = Revoked(name) \/ clist' = PassKeys(name) \/ clist' = clist
  PROVE  /\ DOMAIN clist' = KeyIndex
         /\ clist'[k_saved_reply] = clist[k_saved_reply]
         /\ clist'[k_flush_reply] = clist[k_flush_reply]
         /\ clist'[k_reg] = clist[k_reg]
<1>1. ~ (k_saved_reply < NKeysSent) /\ ~ (k_flush_reply < NKeysSent) /\ ~ (k_reg < NKeysSent)
  <2>1. NKeysSent \in 1 .. 4
    BY SimAssumption DEF k_saved_reply
  <2>. QED  BY <2>1 DEF k_saved_reply, k_flush_reply, k_reg
<1>. QED  BY <1>1, KeyIndices DEF Revoked, PassKeys

\* A reply is taken: the caller is answered.
LEMMA ReplyTakenKeeps ==
  ASSUME NEW l \in Label, Here(l), DOMAIN clist = KeyIndex, clist[k_reg] = "hw", ReplyTaken
  PROVE  Here(l)' /\ DOMAIN clist' = KeyIndex /\ clist'[k_reg] = "hw"
<1>1. PICK name \in Name : SendExpected(name) /\ owed' = owed \ {name}
  BY DEF ReplyTaken, owed
<1>2. /\ request = Op(l) /\ Op(l).op = "send" /\ response = Nothing
      /\ Holds(l)
  BY <1>1, CallMade DEF SendExpected, SystemCall
<1>3. /\ UNCHANGED <<todo, masked_ports, cr1_read, sr_read, flushing, sr, cr1>>
      /\ Answer(Complete)
      /\ clist[request.to] = name
      /\ clist' = Revoked(name)
  BY <1>1 DEF ReplyTaken, SendExpected, serverVars, usartVars
<1>4. /\ DOMAIN clist' = KeyIndex
      /\ clist'[k_saved_reply] = clist[k_saved_reply]
      /\ clist'[k_flush_reply] = clist[k_flush_reply]
      /\ clist'[k_reg] = clist[k_reg]
  BY <1>3, KeptKeys
<1>5. l \in {"reply", "tc_reply"}
  <2>1. request.to # k_reg
    BY <1>1, <1>3, SimAssumption
  <2>2. ASSUME l \in {"send1_write", "send1_on", "flush_on", "recv1_on", "txe_off", "rxne_off", "tc_off"}
        PROVE  Op(l).to = k_reg
    BY <2>2 DEF Op, Line, Write
  <2>. QED  BY <1>2, <2>1, <2>2, Statements
<1>6. CASE l = "reply"
  <2>1. request.to = k_saved_reply /\ After(l) = "open"
    BY <1>2, <1>6 DEF Op, After, Line, Send
  <2>2. Transmitter(After(l))' /\ Copies(After(l))'
    BY <1>2, <1>3, <1>6, <2>1 DEF Holds, Transmitter, Copies, Recv1, OnIrq, OnTxe, OnRxne, Rest, Free,
         Sending, Flushing, Empty, Tx
  <2>3. Owed(k_saved_reply) /\ (flushing => clist[k_flush_reply] \in Name)
    BY <1>2, <1>6 DEF Holds, Callers
  <2>4. owed' = FlushOwed'
    BY <1>1, <1>3, <1>4, <2>1, <2>3 DEF Owed, FlushOwed
  <2>5. Callers(After(l))'
    BY <1>3, <1>4, <2>1, <2>3, <2>4 DEF Callers, Take, Send1, Flush, Recv1, OnIrq, OnTxe, OnRxne, OnTc
  <2>. QED  BY <1>2, <1>3, <1>4, <2>2, <2>5, Completes DEF Holds
<1>7. CASE l = "tc_reply"
  <2>1. request.to = k_flush_reply /\ After(l) = "tc_end"
    BY <1>2, <1>7 DEF Op, After, Line, Send
  <2>2. Transmitter(After(l))' /\ Copies(After(l))'
    BY <1>2, <1>3, <1>7, <2>1 DEF Holds, Transmitter, Copies, Recv1, OnIrq, OnTxe, OnRxne, Rest, Free,
         Sending, Flushing, Empty, Tx
  <2>3. Owed(k_saved_reply) /\ flushing /\ clist[k_flush_reply] \in Name
    BY <1>2, <1>7 DEF Holds, Callers, OnTc, Transmitter, Tx
  <2>4. owed' = {clist'[k_saved_reply]}
    BY <1>1, <1>3, <1>4, <2>1, <2>3 DEF Owed, FlushOwed
  <2>5. Callers(After(l))'
    BY <1>3, <1>4, <2>1, <2>3, <2>4 DEF Callers, Owed, Take, Send1, Flush, Recv1, OnIrq, OnTxe, OnRxne, OnTc
  <2>. QED  BY <1>2, <1>3, <1>4, <2>2, <2>5, Completes DEF Holds
<1>. QED  BY <1>5, <1>6, <1>7

\* A register is written: the data register when it is empty, or CR1 from the
\* handler's copy.
LEMMA RegisterWrittenKeeps ==
  ASSUME NEW l \in Label, Here(l), DOMAIN clist = KeyIndex, clist[k_reg] = "hw",
         RegisterWritten
  PROVE  Here(l)' /\ UNCHANGED clist
<1>1. /\ request = Op(l) /\ Op(l).op = "send" /\ response = Nothing
      /\ Holds(l)
  BY CallMade DEF RegisterWritten, SendExpected, SystemCall
<1>2. /\ UNCHANGED <<todo, masked_ports, clist, cr1_read, sr_read, flushing, owed>>
      /\ Answer(Complete)
      /\ clist[request.to] = "hw"
      /\ IF request.reg = "cr1" THEN cr1' = cr1_read /\ UNCHANGED sr
         ELSE sr' = sr \ {"txe", "tc"} /\ UNCHANGED cr1
  BY SimAssumption DEF RegisterWritten, SendExpected, serverVars, usartVars, callerVars, owed
<1>3. Cr1Copy = cr1_read /\ SrCopy = sr_read /\ Cr1Copy' = cr1_read /\ SrCopy' = sr_read
  BY <1>1, <1>2, CopiesAside
<1>4. "hw" \notin Name
  BY SimAssumption
<1>5. l \in {"send1_write", "send1_on", "flush_on", "recv1_on", "txe_off", "rxne_off", "tc_off"}
  <2>1. CASE l = "reply"
    <3>1. clist[k_saved_reply] \in Name /\ request.to = k_saved_reply
      BY <1>1, <2>1 DEF Holds, Callers, Owed, Op, Line, Send
    <3>. QED  BY <1>2, <1>4, <3>1
  <2>2. CASE l = "tc_reply"
    <3>1. clist[k_flush_reply] \in Name /\ request.to = k_flush_reply
      BY <1>1, <2>2 DEF Holds, Callers, Transmitter, Tx, Op, Line, Send
    <3>. QED  BY <1>2, <1>4, <3>1
  <2>. QED  BY <1>1, <2>1, <2>2, Statements
<1>6. Callers(After(l))'
  <2>1. Owed(k_saved_reply) /\ (flushing => clist[k_flush_reply] \in Name)
    BY <1>1, <1>5 DEF Holds, Callers, Send1, Flush, Recv1, OnTxe, OnRxne, OnTc
  <2>2. After(l) \in {"send1_mask", "reply", "flush_mask", "txe_unmask", "rxne_unmask", "tc_reply"}
    BY <1>5 DEF After, Line
  <2>. QED  BY <1>2, <2>1, <2>2 DEF Callers, Owed, FlushOwed, Take, Send1, Flush, Recv1, OnIrq, OnTxe,
              OnRxne, OnTc
<1>7. CASE l = "send1_write"
  <2>1. request.reg # "cr1" /\ After(l) = "send1_mask"
    BY <1>1, <1>7 DEF Op, After, Line, Write
  <2>2. Transmitter(After(l))' /\ Copies(After(l))'
    BY <1>1, <1>2, <1>7, <2>1 DEF Holds, Transmitter, Copies, Recv1, OnIrq, OnTxe, OnRxne, Free, Tx
  <2>. QED  BY <1>1, <1>2, <1>6, <2>1, <2>2, Completes DEF Holds
<1>8. CASE l # "send1_write"
  <2>1. request.reg = "cr1"
    BY <1>1, <1>5, <1>8 DEF Op, Line, Write
  <2>2. cr1' = cr1_read /\ UNCHANGED sr
    BY <1>2, <2>1
  <2>3. /\ l \in {"send1_on", "recv1_on"} => After(l) = "reply"
        /\ l = "flush_on" => After(l) = "flush_mask"
        /\ l = "txe_off" => After(l) = "txe_unmask"
        /\ l = "rxne_off" => After(l) = "rxne_unmask"
        /\ l = "tc_off" => After(l) = "tc_reply"
    BY DEF After, Line
  <2>4. Transmitter(After(l))'
    <3>1. CASE l \in {"send1_on", "recv1_on", "flush_on"}
      BY <1>1, <1>2, <1>3, <2>2, <2>3, <3>1 DEF Holds, Transmitter, Copies, Recv1, OnIrq, OnTxe, OnRxne,
         Rest, Free, Sending, Flushing, Empty, Tx
    <3>2. CASE l \in {"txe_off", "rxne_off", "tc_off"}
      BY <1>1, <1>2, <1>3, <2>2, <2>3, <3>2 DEF Holds, Transmitter, Copies, Recv1, OnIrq, OnTxe, OnRxne,
         Rest, Free, Sending, Flushing, Empty, Tx
    <3>. QED  BY <1>5, <1>8, <3>1, <3>2
  <2>5. Copies(After(l))'
    BY <1>1, <1>2, <1>3, <1>5, <1>8, <2>2, <2>3 DEF Holds, Copies, OnIrq, OnTxe, OnRxne
  <2>. QED  BY <1>1, <1>2, <1>6, <2>2, <2>4, <2>5, Completes DEF Holds
<1>. QED  BY <1>7, <1>8

\* A register is read: what the server is given is what the register holds.
LEMMA RegisterProvidedKeeps ==
  ASSUME NEW l \in Label, Here(l), DOMAIN clist = KeyIndex, clist[k_reg] = "hw",
         RegisterProvided
  PROVE  Here(l)' /\ DOMAIN clist' = KeyIndex /\ clist'[k_reg] = "hw"
<1>. DEFINE v == IF request.reg = "cr1" THEN cr1 ELSE sr
<1>1. /\ request = Op(l) /\ Op(l).op = "call" /\ response = Nothing
      /\ Holds(l)
  BY CallMade DEF RegisterProvided, CallExpected, SystemCall
<1>2. /\ UNCHANGED <<todo, masked_ports, cr1_read, sr_read, flushing, cr1, owed>>
      /\ clist' = PassKeys("")
      /\ response' = [type |-> "message", value |-> v] /\ request' = Nothing
      /\ sr' = IF request.reg = "dr" THEN sr \ {"rxne"} ELSE sr
  BY DEF RegisterProvided, CallExpected, Answer, serverVars, callerVars, owed
<1>3. "txe" \in sr' <=> "txe" \in sr
  BY <1>2
<1>4. "tc" \in sr' <=> "tc" \in sr
  BY <1>2
<1>5. response' # Nothing /\ response'.value = v
  BY <1>2, PipesDiffer
<1>6. /\ DOMAIN clist' = KeyIndex
      /\ clist'[k_saved_reply] = clist[k_saved_reply]
      /\ clist'[k_flush_reply] = clist[k_flush_reply]
      /\ clist'[k_reg] = clist[k_reg]
  BY <1>2, KeptKeys
<1>7. l \in {"send1_cr1", "flush_read", "recv1_read", "recv1_cr1", "irq_sr", "irq_cr1"}
  BY <1>1, Statements
<1>8. /\ l \in {"send1_cr1", "flush_read", "recv1_cr1", "irq_cr1"} => Op(l) = Read("cr1")
      /\ l = "recv1_read" => Op(l) = Read("dr")
      /\ l = "irq_sr" => Op(l) = Read("sr")
      /\ l = "send1_cr1" => After(l) = "send1_set"
      /\ l = "flush_read" => After(l) = "flush_set"
      /\ l = "recv1_read" => After(l) = "recv1_mask"
      /\ l = "recv1_cr1" => After(l) = "recv1_set"
      /\ l = "irq_sr" => After(l) = "irq_cr1"
      /\ l = "irq_cr1" => After(l) = "irq_txe"
  BY DEF Op, After, Line
<1>9. Head(todo) = Op(l) /\ todo' = todo
  BY <1>2, OnTail DEF Here
<1>10. Transmitter(After(l))'
  BY <1>1, <1>2, <1>3, <1>4, <1>7, <1>8 DEF Holds, Transmitter, Recv1, OnIrq, OnRxne, Rest, Free, Sending,
       Flushing, Empty, Tx
<1>11. Copies(After(l))'
  <2>1. CASE l \in {"send1_cr1", "flush_read", "recv1_cr1", "irq_cr1"}
    <3>1. request.reg = "cr1" /\ Read("cr1") # Read("sr") /\ request.reg # "dr"
      BY <1>1, <1>8, <2>1 DEF Read
    <3>2. Cr1Copy' = cr1' /\ SrCopy' = sr_read /\ SrCopy = sr_read
      BY <1>1, <1>2, <1>5, <1>8, <1>9, <2>1, <3>1 DEF Cr1Copy, SrCopy
    <3>3. sr' = sr
      BY <1>2, <3>1
    <3>. QED  BY <1>1, <1>8, <2>1, <3>2, <3>3 DEF Holds, Copies, OnIrq, OnTxe, OnRxne
  <2>2. CASE l = "recv1_read"
    BY <1>8, <2>2 DEF Copies, OnIrq, OnTxe, OnRxne
  <2>3. CASE l = "irq_sr"
    <3>1. request.reg = "sr"
      BY <1>1, <1>8, <2>3 DEF Read
    <3>2. SrCopy' = sr /\ sr' = sr
      BY <1>2, <1>5, <1>8, <1>9, <2>3, <3>1 DEF SrCopy
    <3>. QED  BY <1>8, <2>3, <3>2 DEF Copies, OnIrq, OnTxe, OnRxne
  <2>. QED  BY <1>7, <2>1, <2>2, <2>3
<1>12. Callers(After(l))'
  <2>1. Owed(k_saved_reply) /\ (flushing => clist[k_flush_reply] \in Name)
    BY <1>1, <1>7 DEF Holds, Callers, Send1, Flush, Recv1, OnIrq
  <2>2. After(l) \in {"send1_set", "flush_set", "recv1_mask", "recv1_set", "irq_cr1", "irq_txe"}
    BY <1>7, <1>8
  <2>. QED  BY <1>2, <1>6, <2>1, <2>2 DEF Callers, Owed, FlushOwed, Take, Send1, Flush, Recv1, OnIrq,
              OnTxe, OnRxne, OnTc
<1>13. l # "open"
  BY <1>7
<1>14. Place(l)' = After(l)
  BY <1>5, <1>13 DEF Place
<1>15. Pipes(l)'
  BY <1>1, <1>2 DEF Pipes
<1>16. On(l, todo')
  BY <1>9 DEF Here
<1>. QED  BY <1>3, <1>4, <1>6, <1>10, <1>11, <1>12, <1>14, <1>15, <1>16 DEF Here, On, Path

\* What is read is copied.
LEMMA RegisterReadGoesOn ==
  ASSUME NEW l \in Label, Here(l), RegisterRead
  PROVE  After(l) \in Label /\ Here(After(l))' /\ UNCHANGED <<clist, sr>>
<1>1. /\ response # Nothing /\ response.type = "message" /\ response' = Nothing
      /\ todo' = Tail(todo)
      /\ Head(todo).op = "call"
      /\ cr1_read' = IF Head(todo).reg = "cr1" THEN response.value ELSE cr1_read
      /\ sr_read' = IF Head(todo).reg = "sr" THEN response.value ELSE sr_read
      /\ UNCHANGED <<request, clist, masked_ports, flushing, sr, cr1, owed>>
  BY DEF RegisterRead, Returns, taskVars, usartVars, callerVars, owed
<1>2. Head(todo) = Op(l)
  BY OnTail DEF Here
<1>3. l \in {"send1_cr1", "flush_read", "recv1_read", "recv1_cr1", "irq_sr", "irq_cr1"}
  BY <1>1, <1>2, Statements
<1>4. l # "open" /\ request = Nothing
  BY <1>1, <1>3 DEF Here, Pipes
<1>5. On(After(l), todo') /\ After(l) \in Label
  BY <1>1, <1>4, OnTail, Statements DEF Here
<1>6. Holds(After(l))
  BY <1>1, <1>4 DEF Here, Holds, Place
<1>7. \E r : Op(l) = Read(r)
  BY <1>3 DEF Op, Line
<1>8. /\ Head(todo).reg = "cr1" <=> Head(todo) = Read("cr1")
      /\ Head(todo).reg = "sr" <=> Head(todo) = Read("sr")
  BY <1>2, <1>7 DEF Read
<1>9. Cr1Copy = cr1_read' /\ SrCopy = sr_read'
  BY <1>1, <1>8 DEF Cr1Copy, SrCopy
<1>10. Cr1Copy' = cr1_read' /\ SrCopy' = sr_read'
  BY <1>1 DEF Cr1Copy, SrCopy
<1>11. Holds(After(l))'
  BY <1>1, <1>6, <1>9, <1>10 DEF Holds, Transmitter, Rest, Free, Sending, Flushing, Empty, Tx, Copies,
       Callers, Owed, FlushOwed
<1>. QED  BY <1>1, <1>4, <1>5, <1>11, GoesOn

\* A message: the transmit port is open, so nothing is under way there.
LEMMA MessageKeeps ==
  ASSUME NEW l \in Label, Here(l), DOMAIN clist = KeyIndex, clist[k_reg] = "hw", Message
  PROVE  Here(l)' /\ DOMAIN clist' = KeyIndex /\ clist'[k_reg] = "hw" /\ UNCHANGED sr
<1>1. PICK port \in {p_mon, p_tx, p_irq, p_rx}, tag \in 0 .. 2, name \in Name :
        /\ \A i \in KeyIndex : clist[i] # name
        /\ Provide(port, tag, name)
        /\ owed' = IF Handler(port, tag) = << >> THEN owed \ {name} ELSE owed \cup {name}
        /\ UNCHANGED <<serverVars, usartVars>>
  BY DEF Message, owed
<1>2. /\ request = Op(l) /\ Op(l).op = "open_receive" /\ response = Nothing
      /\ Holds(l)
  BY <1>1, CallMade DEF Provide, SystemCall
<1>3. /\ UNCHANGED <<todo, masked_ports, cr1_read, sr_read, flushing, sr, cr1>>
      /\ port \notin masked_ports
      /\ clist' = PassKeys(name)
      /\ response' = [type |-> "message", port |-> port, tag |-> tag] /\ request' = Nothing
  BY <1>1 DEF Provide, Answer, serverVars, usartVars
<1>4. l = "open"
  BY <1>2, Statements
<1>5. /\ DOMAIN clist' = KeyIndex
      /\ clist'[k_saved_reply] = clist[k_saved_reply]
      /\ clist'[k_flush_reply] = clist[k_flush_reply]
      /\ clist'[k_reg] = clist[k_reg]
  BY <1>3, KeptKeys
<1>6. clist'[k0] = name
  <2>1. NKeysSent \in 1 .. 4
    BY SimAssumption DEF k_saved_reply
  <2>2. k0 = 0 /\ k0 < NKeysSent
    BY <2>1 DEF k0
  <2>. QED  BY <1>3, <2>2, KeyIndices DEF PassKeys
<1>. DEFINE to == Taking(port, tag)
<1>7. to \in Take /\ (Handler(port, tag) = << >> <=> to = "take_other")
  BY HandlerPath
<1>8. to \in {"take_send1", "take_flush"} => port = p_tx
  BY DEF Taking
<1>9. response' # Nothing /\ response'.port = port /\ response'.tag = tag
  BY <1>3, PipesDiffer
<1>10. Place(l)' = to
  BY <1>4, <1>9 DEF Place
<1>. HIDE DEF to
<1>11. Rest
  BY <1>2, <1>4 DEF Holds, Transmitter
<1>12. Transmitter(to)'
  <2>1. Rest'
    BY <1>3, <1>11 DEF Rest, Free, Sending, Flushing, Empty, Tx
  <2>2. to \in {"take_send1", "take_flush"} => Free'
    BY <1>3, <1>8, <1>11 DEF Rest, Free, Sending, Flushing, Empty, Tx
  <2>. QED  BY <1>7, <2>1, <2>2 DEF Take, Transmitter
<1>13. Copies(to)'
  BY <1>7 DEF Take, Copies, OnIrq, OnTxe, OnRxne
<1>14. owed = FlushOwed /\ (flushing => clist[k_flush_reply] \in Name)
  BY <1>2, <1>4 DEF Holds, Callers
<1>15. FlushOwed' = FlushOwed /\ name \notin FlushOwed
  BY <1>1, <1>3, <1>5, KeyIndices DEF FlushOwed
<1>16. to # "take_other" => Owed(k0)'
  BY <1>1, <1>6, <1>7, <1>14, <1>15 DEF Owed
<1>17. to = "take_other" => owed' = FlushOwed'
  BY <1>1, <1>7, <1>14, <1>15
<1>18. Callers(to)'
  BY <1>3, <1>5, <1>7, <1>14, <1>16, <1>17 DEF Callers, Take, Send1, Flush, Recv1, OnIrq, OnTxe, OnRxne, OnTc
<1>19. Pipes(l)'
  BY <1>2, <1>3 DEF Pipes
<1>20. On(l, todo')
  BY <1>3 DEF Here
<1>. QED  BY <1>3, <1>5, <1>10, <1>12, <1>13, <1>18, <1>19, <1>20 DEF Here, On, Path

\* The server takes a message to its handler.
LEMMA MessageReceivedGoesOn ==
  ASSUME NEW l \in Label, Here(l), MessageReceived
  PROVE  (\E m \in Label : Here(m)') /\ UNCHANGED <<clist, sr>>
<1>1. /\ response # Nothing /\ response.type = "message" /\ response' = Nothing
      /\ Head(todo).op = "open_receive"
      /\ todo' = <<MoveCap(k0, k_saved_reply)>> \o Handler(response.port, response.tag)
                 \o <<OpenReceive>>
      /\ UNCHANGED <<request, clist, masked_ports, cr1_read, sr_read, flushing, sr, cr1, owed>>
  BY DEF MessageReceived, Returns, taskVars, serverVars, usartVars, callerVars, owed
<1>2. Head(todo) = Op(l)
  BY OnTail DEF Here
<1>3. l = "open" /\ Op(l).op = "open_receive"
  BY <1>1, <1>2, Statements
<1>4. PICK port \in {p_mon, p_tx, p_irq, p_rx}, tag \in 0 .. 2 :
        response = [type |-> "message", port |-> port, tag |-> tag]
  BY <1>1, <1>3 DEF Here, Pipes
<1>5. response.port = port /\ response.tag = tag /\ request = Nothing
  BY <1>1, <1>4 DEF Here, Pipes
<1>. DEFINE to == Taking(port, tag)
<1>6. to \in Take /\ On(to, todo')
  BY <1>1, <1>5, HandlerPath
<1>7. Transmitter(to) /\ Callers(to)
  BY <1>1, <1>3, <1>5 DEF Here, Place
<1>. HIDE DEF to
<1>8. Transmitter(to)' /\ Callers(to)'
  BY <1>1, <1>7 DEF Transmitter, Rest, Free, Sending, Flushing, Empty, Tx, Callers, Owed, FlushOwed
<1>9. Copies(to)'
  BY <1>6 DEF Take, Copies, OnIrq, OnTxe, OnRxne
<1>10. to \in Label
  BY <1>6 DEF Label
<1>11. Here(to)'
  BY <1>1, <1>5, <1>6, <1>8, <1>9, <1>10, GoesOn DEF Holds
<1>. QED  BY <1>1, <1>10, <1>11

-----------------------------------------------------------------------------
(* Statements that are not calls *)

\* The copy of CR1 is changed; it is written next.
LEMMA SetCr1GoesOn ==
  ASSUME NEW l \in Label, Here(l), SetCr1
  PROVE  After(l) \in Label /\ Here(After(l))' /\ UNCHANGED <<clist, sr>>
<1>1. /\ Op(l).op = "set_cr1" /\ Head(todo) = Op(l) /\ Holds(l)
      /\ Cr1Copy = cr1_read /\ SrCopy = sr_read
      /\ l # "open" => On(After(l), Tail(todo)) /\ After(l) \in Label
      /\ request = Nothing /\ response = Nothing
  BY StatementReached DEF SetCr1, At
<1>2. /\ cr1_read' = (cr1_read \cup Op(l).on) \ Op(l).off
      /\ todo' = Tail(todo)
      /\ UNCHANGED <<request, response, clist, masked_ports, sr_read, flushing, sr, cr1, owed>>
  BY <1>1 DEF SetCr1, pipeVars, taskVars, usartVars, callerVars, owed
<1>3. l \in {"send1_set", "flush_set", "recv1_set", "txe_set", "rxne_set", "tc_set"}
  BY <1>1, Statements
<1>4. Cr1Copy' = cr1_read' /\ SrCopy' = sr_read'
  BY <1>1, <1>2 DEF Cr1Copy, SrCopy
<1>5. /\ l = "send1_set" => After(l) = "send1_on" /\ Op(l) = SetCopy({"txe"}, {})
      /\ l = "flush_set" => After(l) = "flush_on" /\ Op(l) = SetCopy({"tc"}, {})
      /\ l = "recv1_set" => After(l) = "recv1_on" /\ Op(l) = SetCopy({"rxne"}, {})
      /\ l = "txe_set" => After(l) = "txe_off" /\ Op(l) = SetCopy({}, {"txe"})
      /\ l = "rxne_set" => After(l) = "rxne_off" /\ Op(l) = SetCopy({}, {"rxne"})
      /\ l = "tc_set" => After(l) = "tc_off" /\ Op(l) = SetCopy({}, {"tc"})
  BY DEF After, Op, Line
<1>6. cr1_read = cr1
  BY <1>1, <1>3 DEF Holds, Copies
<1>7. Copies(After(l))'
  <2>1. CASE l = "send1_set"
    <3>1. cr1_read' = cr1 \cup {"txe"}
      BY <1>2, <1>5, <1>6, <2>1 DEF SetCopy
    <3>. QED  BY <1>2, <1>4, <1>5, <2>1, <3>1 DEF Copies, OnIrq, OnTxe, OnRxne
  <2>2. CASE l = "flush_set"
    <3>1. cr1_read' = cr1 \cup {"tc"}
      BY <1>2, <1>5, <1>6, <2>2 DEF SetCopy
    <3>. QED  BY <1>2, <1>4, <1>5, <2>2, <3>1 DEF Copies, OnIrq, OnTxe, OnRxne
  <2>3. CASE l = "recv1_set"
    <3>1. cr1_read' = cr1 \cup {"rxne"}
      BY <1>2, <1>5, <1>6, <2>3 DEF SetCopy
    <3>. QED  BY <1>2, <1>4, <1>5, <2>3, <3>1 DEF Copies, OnIrq, OnTxe, OnRxne
  <2>4. CASE l = "txe_set"
    <3>1. cr1_read' = cr1 \ {"txe"}
      BY <1>2, <1>5, <1>6, <2>4 DEF SetCopy
    <3>. QED  BY <1>1, <1>2, <1>4, <1>5, <2>4, <3>1 DEF Holds, Copies, OnIrq, OnTxe, OnRxne
  <2>5. CASE l = "rxne_set"
    <3>1. cr1_read' = cr1 \ {"rxne"}
      BY <1>2, <1>5, <1>6, <2>5 DEF SetCopy
    <3>. QED  BY <1>1, <1>2, <1>4, <1>5, <2>5, <3>1 DEF Holds, Copies, OnIrq, OnTxe, OnRxne
  <2>6. CASE l = "tc_set"
    <3>1. cr1_read' = cr1 \ {"tc"}
      BY <1>2, <1>5, <1>6, <2>6 DEF SetCopy
    <3>. QED  BY <1>2, <1>4, <1>5, <2>6, <3>1 DEF Copies, OnIrq, OnTxe, OnRxne
  <2>. QED  BY <1>3, <2>1, <2>2, <2>3, <2>4, <2>5, <2>6
<1>8. Transmitter(After(l))'
  BY <1>1, <1>2, <1>3, <1>5 DEF Holds, Transmitter, Recv1, OnIrq, OnRxne, Rest, Free, Sending, Flushing,
       Empty, Tx
<1>9. Callers(After(l))'
  <2>1. Owed(k_saved_reply) /\ (flushing => clist[k_flush_reply] \in Name)
    BY <1>1, <1>3 DEF Holds, Callers, Send1, Flush, Recv1, OnTxe, OnRxne, OnTc
  <2>2. After(l) \in {"send1_on", "flush_on", "recv1_on", "txe_off", "rxne_off", "tc_off"}
    BY <1>3, <1>5
  <2>. QED  BY <1>2, <2>1, <2>2 DEF Callers, Owed, FlushOwed, Take, Send1, Flush, Recv1, OnIrq, OnTxe,
              OnRxne, OnTc
<1>10. l # "open"
  BY <1>3
<1>11. On(After(l), todo') /\ After(l) \in Label
  BY <1>1, <1>2, <1>10
<1>12. Here(After(l))'
  BY <1>1, <1>2, <1>7, <1>8, <1>9, <1>11, GoesOn DEF Holds
<1>. QED  BY <1>2, <1>11, <1>12

\* handle_irq branches on a bit that was set when it read the registers and is
\* enabled: CR1 is as it was read, and TXE and TC stay until a character is
\* written.
LEMMA BranchGoesOn ==
  ASSUME NEW l \in Label, Here(l), Branch
  PROVE  (\E m \in Label : Here(m)') /\ UNCHANGED <<clist, sr>>
<1>1. /\ Op(l).op = "if" /\ Head(todo) = Op(l) /\ Holds(l)
      /\ Cr1Copy = cr1_read /\ SrCopy = sr_read
      /\ l # "open" => On(After(l), Tail(todo)) /\ After(l) \in Label
      /\ request = Nothing /\ response = Nothing
  BY StatementReached DEF Branch, At
<1>2. /\ todo' = IF Op(l).bit \in sr_read \cap cr1_read THEN OnBit(Op(l).bit) \o Tail(todo)
                 ELSE Tail(todo)
      /\ UNCHANGED <<request, response, clist, masked_ports, cr1_read, sr_read, flushing, sr, cr1,
                     owed>>
  BY <1>1 DEF Branch, pipeVars, taskVars, serverVars, usartVars, callerVars, owed
<1>3. l \in {"irq_txe", "irq_rxne", "irq_tc"}
  BY <1>1, Statements
<1>4. /\ l = "irq_txe" => After(l) = "irq_rxne" /\ Op(l).bit = "txe"
      /\ l = "irq_rxne" => After(l) = "irq_tc" /\ Op(l).bit = "rxne"
      /\ l = "irq_tc" => After(l) = "reply" /\ Op(l).bit = "tc"
  BY DEF After, Op, Line, If
<1>5. Cr1Copy' = cr1_read /\ SrCopy' = sr_read
  BY <1>1, <1>2 DEF Cr1Copy, SrCopy
<1>6. /\ Rest
      /\ cr1_read = cr1
      /\ sr_read \cap {"txe", "tc"} \subseteq sr
      /\ Owed(k_saved_reply)
      /\ flushing => clist[k_flush_reply] \in Name
  BY <1>1, <1>3 DEF Holds, Transmitter, Copies, Callers, OnIrq
<1>7. On(After(l), Tail(todo)) /\ After(l) \in Label
  BY <1>1, <1>3
<1>8. /\ Rest'
      /\ Cr1Copy' = cr1'
      /\ SrCopy' \cap {"txe", "tc"} \subseteq sr'
      /\ Owed(k_saved_reply)'
      /\ flushing' => clist'[k_flush_reply] \in Name
  BY <1>2, <1>5, <1>6 DEF Rest, Free, Sending, Flushing, Empty, Tx, Owed, FlushOwed
<1>9. CASE Op(l).bit \notin sr_read \cap cr1_read
  <2>1. todo' = Tail(todo)
    BY <1>2, <1>9
  <2>2. Holds(After(l))'
    BY <1>3, <1>4, <1>8 DEF Holds, Transmitter, Copies, Callers, Take, Send1, Flush, Recv1, OnIrq, OnTxe,
         OnRxne, OnTc
  <2>3. Here(After(l))'
    BY <1>1, <1>2, <1>7, <2>1, <2>2, GoesOn
  <2>. QED  BY <1>2, <1>7, <2>3
<1>10. CASE Op(l).bit \in sr_read \cap cr1_read
  <2>1. todo' = OnBit(Op(l).bit) \o Tail(todo)
    BY <1>2, <1>10
  <2>2. CASE l = "irq_txe"
    <3>1. "txe" \in cr1 /\ "txe" \in sr
      BY <1>4, <1>6, <1>10, <2>2
    <3>2. Sending /\ Empty /\ ~ flushing
      BY <1>6, <3>1 DEF Rest, Free, Sending, Flushing, Empty, Tx
    <3>3. On("txe_set", todo')
      BY <1>4, <1>7, <2>1, <2>2, <3>2, BranchPath
    <3>4. Sending' /\ Empty'
      BY <1>2, <3>2 DEF Sending, Empty, Tx
    <3>5. Holds("txe_set")'
      BY <1>8, <3>4 DEF Holds, Transmitter, Copies, Callers, Take, Send1, Flush, Recv1, OnIrq, OnTxe,
           OnRxne, OnTc
    <3>6. "txe_set" \in Label
      BY DEF Label, OnTxe
    <3>7. Here("txe_set")'
      BY <1>1, <1>2, <3>3, <3>5, <3>6, GoesOn
    <3>. QED  BY <1>2, <3>6, <3>7
  <2>3. CASE l = "irq_rxne"
    <3>1. On("rxne_set", todo')
      BY <1>4, <1>7, <2>1, <2>3, BranchPath
    <3>2. Holds("rxne_set")'
      BY <1>8 DEF Holds, Transmitter, Copies, Callers, Take, Send1, Flush, Recv1, OnIrq, OnTxe,
           OnRxne, OnTc
    <3>3. "rxne_set" \in Label
      BY DEF Label, OnRxne
    <3>4. Here("rxne_set")'
      BY <1>1, <1>2, <3>1, <3>2, <3>3, GoesOn
    <3>. QED  BY <1>2, <3>3, <3>4
  <2>4. CASE l = "irq_tc"
    <3>1. "tc" \in cr1 /\ "tc" \in sr
      BY <1>4, <1>6, <1>10, <2>4
    <3>2. Flushing
      BY <1>6, <3>1 DEF Rest, Free, Sending, Flushing, Empty, Tx
    <3>3. On("tc_set", todo')
      BY <1>4, <1>7, <2>1, <2>4, BranchPath
    <3>4. Flushing' /\ "tc" \in sr'
      BY <1>2, <3>1, <3>2 DEF Flushing, Empty, Tx
    <3>5. Holds("tc_set")'
      BY <1>8, <3>4 DEF Holds, Transmitter, Copies, Callers, Take, Send1, Flush, Recv1, OnIrq, OnTxe,
           OnRxne, OnTc
    <3>6. "tc_set" \in Label
      BY DEF Label, OnTc
    <3>7. Here("tc_set")'
      BY <1>1, <1>2, <3>3, <3>5, <3>6, GoesOn
    <3>. QED  BY <1>2, <3>6, <3>7
  <2>. QED  BY <1>3, <2>2, <2>3, <2>4
<1>. QED  BY <1>9, <1>10

\* A flush begins, or ends.
LEMMA SetFlushingGoesOn ==
  ASSUME NEW l \in Label, Here(l), SetFlushing
  PROVE  After(l) \in Label /\ Here(After(l))' /\ UNCHANGED <<clist, sr>>
<1>1. /\ Op(l).op = "flushing" /\ Head(todo) = Op(l) /\ Holds(l)
      /\ Cr1Copy = cr1_read /\ SrCopy = sr_read
      /\ l # "open" => On(After(l), Tail(todo)) /\ After(l) \in Label
      /\ request = Nothing /\ response = Nothing
  BY StatementReached DEF SetFlushing, At
<1>2. /\ flushing' = Op(l).value
      /\ todo' = Tail(todo)
      /\ UNCHANGED <<request, response, clist, masked_ports, cr1_read, sr_read, sr, cr1, owed>>
  BY <1>1 DEF SetFlushing, pipeVars, taskVars, usartVars, callerVars, owed
<1>3. l \in {"flush_begin", "tc_end"}
  BY <1>1, Statements
<1>4. /\ l = "flush_begin" => After(l) = "open" /\ Op(l).value = TRUE
      /\ l = "tc_end" => After(l) = "tc_unmask" /\ Op(l).value = FALSE
  BY DEF After, Op, Line, SetFlush
<1>5. On(After(l), todo') /\ After(l) \in Label
  BY <1>1, <1>2, <1>3
<1>6. Copies(After(l))'
  BY <1>3, <1>4 DEF Copies, OnIrq, OnTxe, OnRxne
<1>7. Transmitter(After(l))' /\ Callers(After(l))'
  <2>1. CASE l = "flush_begin"
    <3>1. Flushing'
      BY <1>1, <1>2, <1>4, <2>1 DEF Holds, Transmitter, Flushing, Empty, Tx
    <3>2. Transmitter("open")'
      BY <3>1 DEF Transmitter, Rest, Recv1, OnIrq, OnRxne
    <3>3. owed = {clist[k_flush_reply]} /\ clist[k_flush_reply] \in Name
      BY <1>1, <2>1 DEF Holds, Callers
    <3>4. owed' = FlushOwed' /\ clist'[k_flush_reply] \in Name
      BY <1>2, <1>4, <2>1, <3>3 DEF FlushOwed
    <3>5. Callers("open")'
      BY <3>4 DEF Callers, Take, Send1, Flush, Recv1, OnIrq, OnTxe, OnRxne, OnTc
    <3>. QED  BY <1>4, <2>1, <3>2, <3>5
  <2>2. CASE l = "tc_end"
    <3>1. Tx(TRUE, FALSE, FALSE, FALSE)' /\ Empty'
      BY <1>1, <1>2, <1>4, <2>2 DEF Holds, Transmitter, Empty, Tx
    <3>2. Transmitter("tc_unmask")'
      BY <3>1 DEF Transmitter, Recv1, OnIrq, OnRxne
    <3>3. owed = {clist[k_saved_reply]} /\ clist[k_saved_reply] \in Name
      BY <1>1, <2>2 DEF Holds, Callers
    <3>4. Owed(k_saved_reply)' /\ ~ flushing'
      BY <1>2, <1>4, <2>2, <3>3 DEF Owed, FlushOwed
    <3>5. Callers("tc_unmask")'
      BY <3>4 DEF Callers, Take, Send1, Flush, Recv1, OnIrq, OnTxe, OnRxne, OnTc
    <3>. QED  BY <1>4, <2>2, <3>2, <3>5
  <2>. QED  BY <1>3, <2>1, <2>2
<1>8. Here(After(l))'
  BY <1>1, <1>2, <1>5, <1>6, <1>7, GoesOn DEF Holds
<1>. QED  BY <1>2, <1>5, <1>8

-----------------------------------------------------------------------------
(* Steps of others *)

\* The USART sets bits, and clears none.
LEMMA UsartKeeps ==
  ASSUME NEW l \in Label, Here(l), Usart
  PROVE  Here(l)' /\ UNCHANGED clist
<1>1. /\ UNCHANGED <<todo, request, response, clist, masked_ports, cr1_read, sr_read, flushing, cr1,
                     owed>>
      /\ \E bit : sr' = sr \cup {bit}
  BY DEF Usart, pipeVars, taskVars, serverVars, callerVars, owed
<1>2. sr \subseteq sr'
  BY <1>1
<1>3. Place(l)' = Place(l) /\ Pipes(l)' /\ On(l, todo')
  BY <1>1 DEF Place, Pipes, Here
<1>4. Transmitter(Place(l))'
  BY <1>1, <1>2, <1>3 DEF Here, Transmitter, Rest, Free, Sending, Flushing, Empty, Tx
<1>5. Copies(Place(l))' /\ Callers(Place(l))'
  BY <1>1, <1>2, <1>3 DEF Here, Copies, Cr1Copy, SrCopy, Callers, Owed, FlushOwed
<1>. QED  BY <1>1, <1>2, <1>3, <1>4, <1>5 DEF Here, On, Path

\* The invariant does not look at whether the test has failed.
LEMMA AsideKeeps ==
  ASSUME NEW l \in Label, Here(l),
         UNCHANGED <<todo, pipeVars, clist, masked_ports, serverVars, usartVars, owed>>
  PROVE  Here(l)'
<1>1. UNCHANGED <<todo, request, response, clist, masked_ports, cr1_read, sr_read, flushing, sr, cr1,
                  owed>>
  BY DEF pipeVars, serverVars, usartVars
<1>2. Place(l)' = Place(l) /\ Pipes(l)' /\ On(l, todo')
  BY <1>1 DEF Place, Pipes, Here
<1>3. Transmitter(Place(l))'
  BY <1>1, <1>2 DEF Here, Transmitter, Rest, Free, Sending, Flushing, Empty, Tx
<1>4. Copies(Place(l))' /\ Callers(Place(l))'
  BY <1>1, <1>2 DEF Here, Copies, Cr1Copy, SrCopy, Callers, Owed, FlushOwed
<1>. QED  BY <1>2, <1>3, <1>4 DEF Here, On, Path

-----------------------------------------------------------------------------
(* The inductive invariant *)

\* The invariant holds when the server starts.
LEMMA InitHolds ==
  ASSUME Init
  PROVE  IInv
<1>1. /\ "start" \in Label \ {"open"} /\ Op("start") = Mask(p_rx) /\ After("start") = "open"
      /\ "open" \in Label /\ Op("open") = OpenReceive
  BY DEF Label, Op, After, Line
<1>2. Mask(p_rx) \in Statement /\ OpenReceive \in Statement
  BY <1>1 DEF Statement
<1>3. On("start", <<Mask(p_rx)>> \o <<OpenReceive>>)
  BY <1>1, OnOpen, OnBefore
<1>4. <<Mask(p_rx), OpenReceive>> = <<Mask(p_rx)>> \o <<OpenReceive>>
  BY <1>2, Pair
<1>5. On("start", todo)
  BY <1>3, <1>4 DEF Init
<1>6. Pipes("start") /\ Place("start") = "start"
  BY DEF Init, Pipes, Place
<1>7. Transmitter("start")
  <2>1. Free
    BY DEF Init, Free, Tx, Empty
  <2>. QED  BY <2>1 DEF Transmitter, Recv1, OnIrq, OnRxne
<1>8. Copies("start")
  BY DEF Copies, OnIrq, OnTxe, OnRxne
<1>9. Callers("start")
  BY DEF Init, Callers, FlushOwed, owed, Take, Send1, Flush, Recv1, OnIrq, OnTxe, OnRxne, OnTc
<1>10. DOMAIN clist = KeyIndex /\ clist[k_reg] = "hw"
  BY KeyIndices DEF Init
<1>. QED  BY <1>1, <1>5, <1>6, <1>7, <1>8, <1>9, <1>10 DEF IInv, Here

\* Every step keeps it.
LEMMA NextKeeps ==
  ASSUME IInv, [Next]_vars
  PROVE  IInv'
<1>1. PICK l \in Label : Here(l)
  BY DEF IInv
<1>2. DOMAIN clist = KeyIndex /\ clist[k_reg] = "hw"
  BY DEF IInv
<1>3. ASSUME UNCHANGED <<clist, sr>>, NEW m \in Label, Here(m)'
      PROVE  IInv'
  BY <1>2, <1>3 DEF IInv
<1>4. CASE MessageReceived
  BY <1>1, <1>3, <1>4, MessageReceivedGoesOn
<1>5. CASE RegisterRead
  BY <1>1, <1>3, <1>5, RegisterReadGoesOn
<1>6. CASE SetCr1
  BY <1>1, <1>3, <1>6, SetCr1GoesOn
<1>7. CASE Branch
  BY <1>1, <1>3, <1>7, BranchGoesOn
<1>8. CASE SetFlushing
  BY <1>1, <1>3, <1>8, SetFlushingGoesOn
<1>9. CASE Message
  <2>1. Here(l)' /\ DOMAIN clist' = KeyIndex /\ clist'[k_reg] = "hw" /\ UNCHANGED sr
    BY <1>1, <1>2, <1>9, MessageKeeps
  <2>. QED  BY <1>2, <2>1 DEF IInv
<1>10. CASE ReplyTaken
  <2>1. Here(l)' /\ DOMAIN clist' = KeyIndex /\ clist'[k_reg] = "hw"
    BY <1>1, <1>2, <1>10, ReplyTakenKeeps
  <2>2. UNCHANGED sr
    BY <1>10 DEF ReplyTaken, usartVars
  <2>. QED  BY <1>2, <2>1, <2>2 DEF IInv
<1>11. CASE RegisterWritten
  <2>1. Here(l)' /\ UNCHANGED clist
    BY <1>1, <1>2, <1>11, RegisterWrittenKeeps
  <2>. QED  BY <1>2, <2>1 DEF IInv
<1>12. CASE RegisterProvided
  <2>1. Here(l)' /\ DOMAIN clist' = KeyIndex /\ clist'[k_reg] = "hw"
    BY <1>1, <1>2, <1>12, RegisterProvidedKeeps
  <2>. QED  BY <2>1 DEF IInv
<1>13. CASE Usart
  <2>1. Here(l)' /\ UNCHANGED clist
    BY <1>1, <1>2, <1>13, UsartKeeps
  <2>. QED  BY <1>2, <2>1 DEF IInv
<1>14. CASE TaskNext /\ UNCHANGED <<serverVars, usartVars, callerVars>>
  <2>0. UNCHANGED sr /\ UNCHANGED <<serverVars, usartVars, owed>>
    BY <1>14 DEF usartVars, callerVars, owed
  <2>1. CASE IssueCall
    <3>1. Here(l)' /\ UNCHANGED clist
      BY <1>1, <2>0, <2>1, IssueCallKeeps DEF IssueCall, taskVars
    <3>. QED  BY <1>3, <2>0, <3>1
  <2>2. CASE Completed
    <3>1. After(l) \in Label /\ Here(After(l))' /\ UNCHANGED clist
      BY <1>1, <2>0, <2>2, CompletedGoesOn DEF Completed, taskVars
    <3>. QED  BY <1>3, <2>0, <3>1
  <2>3. CASE CopyCap
    <3>1. Here(l)' /\ DOMAIN clist' = KeyIndex /\ clist'[k_reg] = "hw"
      BY <1>1, <1>2, <2>0, <2>3, CopyCapKeeps
    <3>. QED  BY <1>2, <2>0, <3>1 DEF IInv
  <2>4. CASE MaskPort \/ UnmaskPort
    <3>1. Here(l)' /\ UNCHANGED clist
      BY <1>1, <2>0, <2>4, PortKeeps
    <3>. QED  BY <1>3, <2>0, <3>1
  <2>5. CASE ExpectationFails
    <3>1. Here(l)' /\ UNCHANGED clist
      BY <1>1, <2>0, <2>5, AsideKeeps DEF ExpectationFails
    <3>. QED  BY <1>3, <2>0, <3>1
  <2>. QED  BY <1>14, <2>1, <2>2, <2>3, <2>4, <2>5 DEF TaskNext
<1>15. CASE UNCHANGED vars
  <2>1. Here(l)' /\ UNCHANGED <<clist, sr>>
    BY <1>1, <1>15, AsideKeeps DEF vars, taskVars, usartVars, callerVars, owed
  <2>. QED  BY <1>3, <2>1
<1>. QED
  BY <1>4, <1>5, <1>6, <1>7, <1>8, <1>9, <1>10, <1>11, <1>12, <1>13, <1>14, <1>15 DEF Next

\* What it says of a call that the server has made.
LEMMA Implied ==
  ASSUME IInv
  PROVE  RepliesKept /\ CharactersKept /\ TxWakes
<1>1. PICK l \in Label : Here(l)
  BY DEF IInv
<1>2. ASSUME request # Nothing
      PROVE  request = Op(l) /\ Holds(l)
  BY <1>1, <1>2 DEF Here, Pipes, Place, Holds
<1>3. CASE request \in {Send(k_saved_reply), Send(k_flush_reply)}
  <2>1. request.op = "send" /\ request.to \in {k_saved_reply, k_flush_reply} /\ request # Nothing
    BY <1>3 DEF Send, Nothing
  <2>2. request = Op(l) /\ Holds(l)
    BY <1>2, <2>1
  <2>3. l \in {"send1_write", "send1_on", "flush_on", "recv1_on", "txe_off", "rxne_off", "tc_off"} =>
          Op(l).to = k_reg
    BY DEF Op, Line, Write
  <2>4. l \in {"reply", "tc_reply"}
    BY <2>1, <2>2, <2>3, KeyIndices, Statements
  <2>5. /\ l = "reply" => request.to = k_saved_reply
        /\ l = "tc_reply" => request.to = k_flush_reply
    BY <2>2 DEF Op, Line, Send
  <2>6. Owed(k_saved_reply)
    BY <2>2, <2>4 DEF Holds, Callers, OnTc
  <2>7. l = "tc_reply" => flushing /\ {"txe", "tc"} \subseteq sr
    BY <2>2 DEF Holds, Transmitter, Tx
  <2>8. clist[request.to] \in owed
    BY <2>4, <2>5, <2>6, <2>7 DEF Owed, FlushOwed
  <2>9. request = Send(k_flush_reply) => l = "tc_reply"
    <3>1. request = Send(k_flush_reply) => request.to = k_flush_reply
      BY DEF Send
    <3>. QED  BY <2>4, <2>5, <3>1, KeyIndices
  <2>10. request # OpenReceive /\ request # Write("dr")
    <3>1. OpenReceive.op = "open_receive" /\ Write("dr").to = k_reg
      BY DEF OpenReceive, Write
    <3>. QED  BY <2>1, <3>1, KeyIndices
  <2>. QED  BY <2>7, <2>8, <2>9, <2>10 DEF RepliesKept, CharactersKept, TxWakes
<1>4. CASE request = OpenReceive
  <2>1. request.op = "open_receive" /\ request # Nothing
    BY <1>4 DEF OpenReceive, Nothing
  <2>2. request = Op(l) /\ Holds(l)
    BY <1>2, <2>1
  <2>3. l = "open"
    BY <2>1, <2>2, Statements
  <2>4. Rest /\ owed = FlushOwed
    BY <2>2, <2>3 DEF Holds, Transmitter, Callers
  <2>5. request # Write("dr") /\ ~ request \in {Send(k_saved_reply), Send(k_flush_reply)}
    <3>1. \A i : Send(i).op = "send" /\ Write("dr").op = "send"
      BY DEF Send, Write
    <3>. QED  BY <2>1, <3>1
  <2>6. RepliesKept /\ CharactersKept
    BY <2>4, <2>5 DEF RepliesKept, CharactersKept, FlushOwed
  <2>7. TxWakes
    BY <2>4 DEF TxWakes, Rest, Free, Sending, Flushing, Tx
  <2>. QED  BY <2>6, <2>7
<1>5. CASE request = Write("dr")
  <2>1. request.op = "send" /\ request.to = k_reg /\ request.reg = "dr" /\ request # Nothing
    BY <1>5 DEF Write, Nothing
  <2>2. request = Op(l) /\ Holds(l)
    BY <1>2, <2>1
  <2>3. l \in {"send1_on", "flush_on", "recv1_on", "txe_off", "rxne_off", "tc_off"} =>
          Op(l).reg = "cr1"
    BY DEF Op, Line, Write
  <2>4. l = "reply" => Op(l).to = k_saved_reply
    BY DEF Op, Line, Send
  <2>5. l = "tc_reply" => Op(l).to = k_flush_reply
    BY DEF Op, Line, Send
  <2>6. l = "send1_write"
    BY <2>1, <2>2, <2>3, <2>4, <2>5, KeyIndices, Statements
  <2>7. "txe" \in sr
    BY <2>2, <2>6 DEF Holds, Transmitter, Free, Empty
  <2>8. \A i : Send(i).to = i
    BY DEF Send
  <2>9. ~ request \in {Send(k_saved_reply), Send(k_flush_reply)} /\ request # OpenReceive
    <3>1. OpenReceive.op = "open_receive"
      BY DEF OpenReceive
    <3>. QED  BY <2>1, <2>8, <3>1, KeyIndices
  <2>. QED  BY <2>7, <2>9 DEF RepliesKept, CharactersKept, TxWakes
<1>. QED  BY <1>3, <1>4, <1>5 DEF RepliesKept, CharactersKept, TxWakes

\* The invariant holds throughout.
LEMMA Invariant == Spec => []IInv
<1>1. Init => IInv
  BY InitHolds
<1>2. IInv /\ [Next]_vars => IInv'
  BY NextKeeps
<1>. QED  BY <1>1, <1>2, PTL DEF Spec

\* Nobody is answered twice, and when the server receives again it has answered
\* every message of a tag that its handler knows, but for a flush under way, whose
\* caller's key it still has.  (It never answers the others, who are in ignored.)
THEOREM KnownTagsAnswered == Spec => []RepliesKept
<1>1. IInv => RepliesKept
  BY Implied
<1>. QED  BY <1>1, Invariant, PTL

\* The data register is written when it is empty, and a flush is answered when
\* the last character has left.
THEOREM NoCharacterLost == Spec => []CharactersKept
<1>1. IInv => CharactersKept
  BY Implied
<1>. QED  BY <1>1, Invariant, PTL

\* A transmit port that the server leaves masked has an interrupt enabled that
\* opens it.
THEOREM TransmitterWakes == Spec => []TxWakes
<1>1. IInv => TxWakes
  BY Implied
<1>. QED  BY <1>1, Invariant, PTL
=============================================================================
