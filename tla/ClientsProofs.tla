---------------------------- MODULE ClientsProofs ----------------------------
(***************************************************************************)
(* Proofs about Clients: the answer of the chat (ChatTurn), for any number *)
(* of requests, attempts and pieces, and the session of any tabs           *)
(* (BrowserSession), which rests on BrowserSessionProofs.                  *)
(***************************************************************************)
EXTENDS Clients, SequenceTheorems, FiniteSetTheorems, TLAPS

-----------------------------------------------------------------------------
(* The answer on its way.  In this section w is what is on the wire for    *)
(* request r, u the state of the page and s the server's side.             *)

Attempts == 1 .. MaxAttempts
Counts   == Nat \ {0}
Piece    == Chat!Requests \X Nat \X Nat

TextEvent(r, a, n) == [kind |-> "text", payload |-> <<r, a, n>>]

Events ==
    {Chat!Event(kind) : kind \in {"reset", "cards", "error"}}
      \cup {TextEvent(r, a, n) : r \in Chat!Requests, a \in Nat, n \in Nat}
      \cup {Chat!Done(r, a, n, cards) :
                r \in Chat!Requests, a \in Nat, n \in Nat, cards \in BOOLEAN}

\* Before the j-th event, the browser has been told the first n pieces of attempt a.
Upto(r, u, w, j, a, n) ==
    IF j = 1 THEN u.text = Chat!Whole(r, a, n)
    ELSE w[j - 1] = IF n = 0 THEN Chat!Event("reset") ELSE TextEvent(r, a, n)

\* The j-th event fits what was told before it.
TextFits(r, u, w, j) ==
    \E a \in Attempts, n \in Counts : w[j] = TextEvent(r, a, n) /\ Upto(r, u, w, j, a, n - 1)
CardsFit(r, u, w, j) ==
    /\ w[j] = Chat!Event("cards") /\ j < Len(w)
    /\ \E a \in Attempts, n \in Counts :
         w[j + 1] = Chat!Done(r, a, n, TRUE) /\ Upto(r, u, w, j, a, n)
DoneFits(r, u, w, j) ==
    /\ j = Len(w)
    /\ \E a \in Attempts, n \in Counts :
         \/ /\ w[j] = Chat!Done(r, a, n, TRUE)
            /\ j = 1 => u.cards /\ u.text = Chat!Whole(r, a, n)
            /\ j # 1 => w[j - 1] = Chat!Event("cards")
         \/ w[j] = Chat!Done(r, a, n, FALSE) /\ Upto(r, u, w, j, a, n)

Fits(r, u, w, j) ==
    \/ TextFits(r, u, w, j) \/ CardsFit(r, u, w, j) \/ DoneFits(r, u, w, j)
    \/ w[j] = Chat!Event("reset") \/ w[j] = Chat!Event("error")

WireFits(r, u, w) == \A j \in 1 .. Len(w) : Fits(r, u, w, j)

\* While the answer is generated, all of it that was sent is on the wire or shown.
Generating(r, u, w, s) ==
    /\ s.at \in {"prepare", "stream"} /\ s.attempt \in Attempts /\ s.sent \in Nat
    /\ Upto(r, u, w, Len(w) + 1, s.attempt, s.sent)
    /\ \A j \in 1 .. Len(w) : w[j].kind \in {"text", "reset"}

Conversation(r, u, w, s) ==
    /\ WireFits(r, u, w)
    /\ s.at # "over" => Generating(r, u, w, s)
    /\ \E a \in Attempts, n \in Nat : u.text = Chat!Whole(r, a, n)
    /\ u.cards => \E a \in Attempts, n \in Counts : w = <<Chat!Done(r, a, n, TRUE)>>

LEMMA Wholes ==
  ASSUME NEW r \in Chat!Requests, NEW a \in Nat, NEW n \in Nat
  PROVE  /\ Chat!Whole(r, a, n) \in Seq(Piece) /\ Len(Chat!Whole(r, a, n)) = n
         /\ Append(Chat!Whole(r, a, n), <<r, a, n + 1>>) = Chat!Whole(r, a, n + 1)
         /\ Chat!Whole(r, a, 0) = <<>>
<1>1. \A k \in Nat : Chat!Whole(r, a, k) \in Seq(Piece) /\ Len(Chat!Whole(r, a, k)) = k
  BY DEF Chat!Whole, Piece
<1>2. Append(Chat!Whole(r, a, n), <<r, a, n + 1>>) = Chat!Whole(r, a, n + 1)
  <2> DEFINE v == Append(Chat!Whole(r, a, n), <<r, a, n + 1>>)
  <2>1. <<r, a, n + 1>> \in Piece
    BY DEF Piece
  <2>2. v \in Seq(Piece) /\ Len(v) = n + 1
    BY <1>1, <2>1
  <2>3. \A i \in 1 .. n + 1 : v[i] = Chat!Whole(r, a, n + 1)[i]
    BY <1>1, <2>1 DEF Chat!Whole
  <2> HIDE DEF v
  <2>4. Chat!Whole(r, a, n + 1) \in Seq(Piece) /\ Len(Chat!Whole(r, a, n + 1)) = n + 1
    BY <1>1
  <2>5. v = Chat!Whole(r, a, n + 1)
    BY <2>2, <2>3, <2>4, SeqEqual
  <2>. QED BY <2>5 DEF v
<1>3. Chat!Whole(r, a, 0) = <<>>
  BY <1>1, EmptySeq
<1>. QED BY <1>1, <1>2, <1>3

LEMMA EventKinds ==
  /\ \A kind : Chat!Event(kind).kind = kind
  /\ \A r, a, n : TextEvent(r, a, n).kind = "text" /\ TextEvent(r, a, n).payload = <<r, a, n>>
  /\ \A r, a, n : \A cards \in BOOLEAN :
       /\ Chat!Done(r, a, n, cards).kind = "done"
       /\ Chat!Done(r, a, n, cards).payload = [text |-> Chat!Whole(r, a, n), cards |-> cards]
BY DEF Chat!Event, TextEvent, Chat!Done

LEMMA EventsAre ==
  /\ \A kind \in {"reset", "cards", "error"} : Chat!Event(kind) \in Events
  /\ \A r \in Chat!Requests, a, n \in Nat : TextEvent(r, a, n) \in Events
  /\ \A r \in Chat!Requests, a, n \in Nat, cards \in BOOLEAN : Chat!Done(r, a, n, cards) \in Events
  /\ \A r \in Chat!Requests, a, n \in Nat : Chat!Done(r, a, n, TRUE) \in Events
<1>1. \A r \in Chat!Requests, a, n \in Nat, cards \in BOOLEAN : Chat!Done(r, a, n, cards) \in Events
  BY DEF Events
<1>2. \A r \in Chat!Requests, a, n \in Nat : Chat!Done(r, a, n, TRUE) \in Events
  BY <1>1, Zenon
<1>3. \A kind \in {"reset", "cards", "error"} : Chat!Event(kind) \in Events
  BY DEF Events
<1>4. \A r \in Chat!Requests, a, n \in Nat : TextEvent(r, a, n) \in Events
  BY DEF Events
<1>. QED BY <1>1, <1>2, <1>3, <1>4, Zenon

LEMMA FitKinds ==
  ASSUME NEW r, NEW u, NEW w, NEW j
  PROVE  /\ TextFits(r, u, w, j) => w[j].kind = "text"
         /\ CardsFit(r, u, w, j) => w[j].kind = "cards"
         /\ DoneFits(r, u, w, j) => w[j].kind = "done"
         /\ w[j] = Chat!Event("reset") => w[j].kind = "reset"
         /\ w[j] = Chat!Event("error") => w[j].kind = "error"
<1>1. TextFits(r, u, w, j) => w[j].kind = "text"
  BY EventKinds DEF TextFits
<1>2. CardsFit(r, u, w, j) => w[j].kind = "cards"
  BY EventKinds DEF CardsFit
<1>3. DoneFits(r, u, w, j) => w[j].kind = "done"
  BY DEF DoneFits, Chat!Done
<1>. QED BY <1>1, <1>2, <1>3, EventKinds

\* What has been sent still fits when more is sent behind it.
LEMMA OldFits ==
  ASSUME NEW r \in Chat!Requests, NEW u, NEW w \in Seq(Events), NEW v \in Seq(Events), NEW s,
         Conversation(r, u, w, s), s.at # "over", NEW j \in 1 .. Len(w)
  PROVE  Fits(r, u, w \o v, j)
<1>1. w[j].kind \in {"text", "reset"} /\ Fits(r, u, w, j)
  BY DEF Conversation, Generating, WireFits
<1>2. TextFits(r, u, w, j) \/ w[j] = Chat!Event("reset")
  BY <1>1, FitKinds DEF Fits
<1>3. \A i \in 1 .. Len(w) : (w \o v)[i] = w[i]
  BY ConcatProperties, LenProperties
<1>4. j = 1 \/ j - 1 \in 1 .. Len(w)
  BY LenProperties
<1>. QED BY <1>2, <1>3, <1>4 DEF Fits, TextFits, Upto

LEMMA NoCardsYet ==
  ASSUME NEW r \in Chat!Requests, NEW u, NEW w, NEW s,
         Conversation(r, u, w, s), s.at # "over"
  PROVE  ~u.cards
<1> SUFFICES ASSUME u.cards PROVE FALSE
  OBVIOUS
<1>1. PICK a \in Attempts, n \in Counts : w = <<Chat!Done(r, a, n, TRUE)>>
  BY DEF Conversation
<1>2. w[1] = Chat!Done(r, a, n, TRUE) /\ 1 \in 1 .. Len(w)
  BY <1>1
<1>3. w[1].kind = "done"
  BY <1>2 DEF Chat!Done
<1>. QED BY <1>2, <1>3 DEF Conversation, Generating

\* The pieces of an attempt follow those before them.
LEMMA MoreText ==
  ASSUME NEW r \in Chat!Requests, NEW u, NEW w \in Seq(Events), NEW s,
         Conversation(r, u, w, s), s.at # "over", NEW n \in Nat, n >= s.sent,
         NEW s2, s2.at = "stream", s2.attempt = s.attempt, s2.sent = n
  PROVE  LET v == Chat!Texts(r, s.attempt, s.sent + 1, n)
         IN  v \in Seq(Events) /\ Conversation(r, u, w \o v, s2)
<1> DEFINE a == s.attempt
           k == s.sent
           v == Chat!Texts(r, a, k + 1, n)
           x == w \o v
<1>1. a \in Attempts /\ a \in Nat /\ k \in Nat /\ Upto(r, u, w, Len(w) + 1, a, k)
      /\ \A j \in 1 .. Len(w) : w[j].kind \in {"text", "reset"}
  BY ChatAssumption DEF Conversation, Generating, Attempts
<1>2. v = [i \in 1 .. n - k |-> TextEvent(r, a, k + i)]
  <2>1. v = [i \in 1 .. n - (k + 1) + 1 |-> TextEvent(r, a, (k + 1) + i - 1)]
    BY DEF Chat!Texts, TextEvent
  <2>2. n - (k + 1) + 1 = n - k /\ \A i \in 1 .. n - k : (k + 1) + i - 1 = k + i
    BY <1>1
  <2> HIDE DEF v, a, k
  <2>. QED BY <2>1, <2>2
<1>3. v \in Seq(Events) /\ Len(v) = n - k
  <2>1. \A i \in 1 .. n - k : TextEvent(r, a, k + i) \in Events
    BY <1>1, EventsAre
  <2>2. n - k \in Nat
    BY <1>1
  <2> HIDE DEF v, a, k
  <2>. QED BY <1>2, <2>1, <2>2
<1>4. \A i \in 1 .. n - k : v[i] = TextEvent(r, a, k + i)
  BY <1>2
<1> HIDE DEF v, a, k
<1>5. /\ x \in Seq(Events) /\ Len(x) = Len(w) + n - k /\ Len(w) \in Nat
      /\ \A i \in 1 .. Len(w) : x[i] = w[i]
      /\ \A i \in 1 .. n - k : x[Len(w) + i] = TextEvent(r, a, k + i)
  <2>1. /\ x \in Seq(Events) /\ Len(x) = Len(w) + Len(v) /\ Len(w) \in Nat
        /\ \A i \in 1 .. Len(w) + Len(v) : x[i] = IF i <= Len(w) THEN w[i] ELSE v[i - Len(w)]
    BY <1>3, ConcatProperties, LenProperties
  <2>. QED BY <1>1, <1>3, <1>4, <2>1
<1> HIDE DEF x
<1>6. \A m \in k .. n : Upto(r, u, x, Len(w) + (m - k) + 1, a, m)
  <2> SUFFICES ASSUME NEW m \in k .. n PROVE Upto(r, u, x, Len(w) + (m - k) + 1, a, m)
    OBVIOUS
  <2>1. CASE m = k
    BY <1>1, <1>5, <2>1 DEF Upto
  <2>2. CASE m > k
    <3>1. m - k \in 1 .. n - k /\ m # 0 /\ Len(w) + (m - k) + 1 # 1 /\ k + (m - k) = m
      BY <1>1, <1>5, <2>2
    <3>2. x[Len(w) + (m - k)] = TextEvent(r, a, k + (m - k))
      BY <1>5, <3>1
    <3>. QED BY <1>1, <1>5, <3>1, <3>2 DEF Upto
  <2>. QED BY <1>1, <2>1, <2>2
<1>7. WireFits(r, u, x)
  <2> SUFFICES ASSUME NEW j \in 1 .. Len(x) PROVE Fits(r, u, x, j)
    BY DEF WireFits
  <2>1. CASE j <= Len(w)
    <3>1. j \in 1 .. Len(w)
      BY <1>5, <2>1
    <3>. QED BY <1>3, <3>1, OldFits DEF x
  <2>2. CASE j > Len(w)
    <3> DEFINE m == j - Len(w) + k
    <3>0. j \in Int /\ j <= Len(w) + n - k
      BY <1>1, <1>5
    <3>1. m \in Counts /\ m - 1 \in k .. n /\ j = Len(w) + (m - 1 - k) + 1 /\ m - k \in 1 .. n - k
      BY <1>1, <1>5, <2>2, <3>0 DEF Counts
    <3>2. x[j] = TextEvent(r, a, m)
      <4>1. j = Len(w) + (m - k) /\ k + (m - k) = m
        BY <1>1, <1>5, <2>2
      <4> HIDE DEF m
      <4>. QED BY <1>5, <3>1, <4>1
    <3> HIDE DEF m
    <3>3. Upto(r, u, x, j, a, m - 1)
      BY <1>6, <3>1
    <3>. QED BY <1>1, <3>1, <3>2, <3>3 DEF Fits, TextFits
  <2>. QED BY <1>5, <2>1, <2>2
<1>8. Generating(r, u, x, s2)
  <2>1. Upto(r, u, x, Len(x) + 1, a, n)
    <3>1. n \in k .. n /\ Len(x) + 1 = Len(w) + (n - k) + 1
      BY <1>1, <1>5 DEF k
    <3>. QED BY <1>6, <3>1
  <2>2. \A j \in 1 .. Len(x) : x[j].kind \in {"text", "reset"}
    <3> SUFFICES ASSUME NEW j \in 1 .. Len(x) PROVE x[j].kind \in {"text", "reset"}
      OBVIOUS
    <3>1. CASE j <= Len(w)
      BY <1>1, <1>5, <3>1
    <3>2. CASE j > Len(w)
      <4>1. j - Len(w) \in 1 .. n - k /\ j = Len(w) + (j - Len(w))
        BY <1>1, <1>5, <3>2
      <4>2. x[j] = TextEvent(r, a, k + (j - Len(w)))
        BY <1>5, <4>1
      <4>. QED BY <4>2, EventKinds
    <3>. QED BY <1>5, <3>1, <3>2
  <2>. QED BY <1>1, <2>1, <2>2 DEF Generating, a
<1>9. Conversation(r, u, x, s2)
  BY <1>7, <1>8, NoCardsYet DEF Conversation
<1>. QED BY <1>3, <1>9 DEF x, v, a, k

\* The answer is over: with the cards, if there are any, and the end.
LEMMA Finished ==
  ASSUME NEW r \in Chat!Requests, NEW u, NEW w \in Seq(Events), NEW s,
         Conversation(r, u, w, s), s.at # "over", s.sent \in Counts, NEW cards \in BOOLEAN,
         NEW s2, s2.at = "over"
  PROVE  LET v == (IF cards THEN <<Chat!Event("cards")>> ELSE <<>>)
                    \o <<Chat!Done(r, s.attempt, s.sent, cards)>>
         IN  v \in Seq(Events) /\ Conversation(r, u, w \o v, s2)
<1> DEFINE a == s.attempt
           n == s.sent
           d == Chat!Done(r, a, n, cards)
           v == (IF cards THEN <<Chat!Event("cards")>> ELSE <<>>) \o <<d>>
           x == w \o v
<1>1. a \in Attempts /\ a \in Nat /\ n \in Counts /\ Upto(r, u, w, Len(w) + 1, a, n)
  BY ChatAssumption DEF Conversation, Generating, Attempts
<1>2. d \in Events /\ Chat!Event("cards") \in Events
  BY <1>1, EventsAre DEF Counts
<1> HIDE DEF d
<1>3. CASE cards
  <2>1. v = <<Chat!Event("cards")>> \o <<d>>
    BY <1>3
  <2>2. v \in Seq(Events) /\ Len(v) = 2 /\ v[1] = Chat!Event("cards") /\ v[2] = d
    BY <1>2, <2>1, ConcatProperties
  <2> HIDE DEF v
  <2>3. /\ x \in Seq(Events) /\ Len(x) = Len(w) + 2 /\ Len(w) \in Nat
        /\ \A i \in 1 .. Len(w) : x[i] = w[i]
        /\ x[Len(w) + 1] = Chat!Event("cards") /\ x[Len(w) + 2] = d
    <3>1. /\ x \in Seq(Events) /\ Len(x) = Len(w) + Len(v) /\ Len(w) \in Nat
          /\ \A i \in 1 .. Len(w) + Len(v) : x[i] = IF i <= Len(w) THEN w[i] ELSE v[i - Len(w)]
      BY <2>2, ConcatProperties, LenProperties
    <3>. QED BY <2>2, <3>1
  <2>4. \A j \in 1 .. Len(w) : Fits(r, u, x, j)
    BY <2>2, OldFits
  <2> HIDE DEF x
  <2>5. Upto(r, u, x, Len(w) + 1, a, n)
    BY <1>1, <2>3 DEF Upto
  <2>6. CardsFit(r, u, x, Len(w) + 1)
    <3>1. (Len(w) + 1) + 1 = Len(w) + 2 /\ Len(w) + 1 < Len(x)
      BY <2>3
    <3>2. x[(Len(w) + 1) + 1] = Chat!Done(r, a, n, TRUE)
      BY <1>3, <2>3, <3>1 DEF d
    <3>. QED BY <1>1, <2>3, <2>5, <3>1, <3>2 DEF CardsFit
  <2>7. DoneFits(r, u, x, Len(w) + 2)
    <3>1. x[Len(w) + 2] = Chat!Done(r, a, n, TRUE)
      BY <1>3, <2>3 DEF d
    <3>2. Len(w) + 2 # 1 /\ (Len(w) + 2) - 1 = Len(w) + 1 /\ Len(w) + 2 = Len(x)
      BY <2>3
    <3>. QED BY <1>1, <2>3, <3>1, <3>2 DEF DoneFits
  <2>8. \A j \in 1 .. Len(x) : j \in 1 .. Len(w) \/ j = Len(w) + 1 \/ j = Len(w) + 2
    BY <2>3
  <2>9. WireFits(r, u, x)
    BY <2>4, <2>6, <2>7, <2>8 DEF WireFits, Fits
  <2>. QED BY <2>2, <2>9, NoCardsYet DEF Conversation, x, v, d, a, n
<1>4. CASE ~cards
  <2>1. v = <<d>>
    BY <1>2, <1>4, ConcatEmptySeq
  <2>2. v \in Seq(Events) /\ Len(v) = 1 /\ v[1] = d
    BY <1>2, <2>1
  <2> HIDE DEF v
  <2>3. /\ x \in Seq(Events) /\ Len(x) = Len(w) + 1 /\ Len(w) \in Nat
        /\ \A i \in 1 .. Len(w) : x[i] = w[i]
        /\ x[Len(w) + 1] = d
    <3>1. /\ x \in Seq(Events) /\ Len(x) = Len(w) + Len(v) /\ Len(w) \in Nat
          /\ \A i \in 1 .. Len(w) + Len(v) : x[i] = IF i <= Len(w) THEN w[i] ELSE v[i - Len(w)]
      BY <2>2, ConcatProperties, LenProperties
    <3>. QED BY <2>2, <3>1
  <2>4. \A j \in 1 .. Len(w) : Fits(r, u, x, j)
    BY <2>2, OldFits
  <2> HIDE DEF x
  <2>5. Upto(r, u, x, Len(w) + 1, a, n)
    BY <1>1, <2>3 DEF Upto
  <2>6. DoneFits(r, u, x, Len(w) + 1)
    <3>1. x[Len(w) + 1] = Chat!Done(r, a, n, FALSE)
      BY <1>4, <2>3 DEF d
    <3>. QED BY <1>1, <2>3, <2>5, <3>1 DEF DoneFits
  <2>7. \A j \in 1 .. Len(x) : j \in 1 .. Len(w) \/ j = Len(w) + 1
    BY <2>3
  <2>8. WireFits(r, u, x)
    BY <2>4, <2>6, <2>7 DEF WireFits, Fits
  <2>. QED BY <2>2, <2>8, NoCardsYet DEF Conversation, x, v, d, a, n
<1>. QED BY <1>3, <1>4

\* An attempt is given up: its pieces are taken back.
LEMMA TakenBack ==
  ASSUME NEW r \in Chat!Requests, NEW u, NEW w \in Seq(Events), NEW s,
         Conversation(r, u, w, s), s.at # "over",
         NEW s2, s2.at = "stream", s2.attempt \in Attempts, s2.sent = 0
  PROVE  LET v == IF s.sent > 0 THEN <<Chat!Event("reset")>> ELSE <<>>
         IN  v \in Seq(Events) /\ Conversation(r, u, w \o v, s2)
<1> DEFINE v == IF s.sent > 0 THEN <<Chat!Event("reset")>> ELSE <<>>
           x == w \o v
<1>1. /\ s.attempt \in Nat /\ s.sent \in Nat /\ s2.attempt \in Nat
      /\ Upto(r, u, w, Len(w) + 1, s.attempt, s.sent)
      /\ \A j \in 1 .. Len(w) : w[j].kind \in {"text", "reset"}
  BY ChatAssumption DEF Conversation, Generating, Attempts
<1>2. Chat!Event("reset") \in Events /\ Chat!Event("reset").kind = "reset"
  BY EventsAre, EventKinds
<1>3. CASE s.sent > 0
  <2>1. v \in Seq(Events) /\ Len(v) = 1 /\ v[1] = Chat!Event("reset")
    BY <1>2, <1>3
  <2> HIDE DEF v
  <2>2. /\ x \in Seq(Events) /\ Len(x) = Len(w) + 1 /\ Len(w) \in Nat
        /\ \A i \in 1 .. Len(w) : x[i] = w[i]
        /\ x[Len(w) + 1] = Chat!Event("reset")
    <3>1. /\ x \in Seq(Events) /\ Len(x) = Len(w) + Len(v) /\ Len(w) \in Nat
          /\ \A i \in 1 .. Len(w) + Len(v) : x[i] = IF i <= Len(w) THEN w[i] ELSE v[i - Len(w)]
      BY <2>1, ConcatProperties, LenProperties
    <3>. QED BY <2>1, <3>1
  <2>3. \A j \in 1 .. Len(w) : Fits(r, u, x, j)
    BY <2>1, OldFits
  <2> HIDE DEF x
  <2>4. \A j \in 1 .. Len(x) : j \in 1 .. Len(w) \/ j = Len(w) + 1
    BY <2>2
  <2>5. WireFits(r, u, x)
    BY <2>2, <2>3, <2>4 DEF WireFits, Fits
  <2>6. Generating(r, u, x, s2)
    <3>1. Upto(r, u, x, Len(x) + 1, s2.attempt, 0)
      BY <2>2 DEF Upto
    <3>2. \A j \in 1 .. Len(x) : x[j].kind \in {"text", "reset"}
      BY <1>1, <1>2, <2>2, <2>4
    <3>. QED BY <3>1, <3>2 DEF Generating
  <2>. QED BY <2>1, <2>5, <2>6, NoCardsYet DEF Conversation, x, v
<1>4. CASE ~(s.sent > 0)
  <2>1. s.sent = 0 /\ v = <<>>
    BY <1>1, <1>4
  <2>2. x = w /\ v \in Seq(Events)
    BY <2>1, ConcatEmptySeq, EmptySeq
  <2> HIDE DEF v, x
  <2>3. Upto(r, u, w, Len(w) + 1, s2.attempt, 0)
    BY <1>1, <2>1, Wholes DEF Upto
  <2>4. Generating(r, u, w, s2)
    BY <1>1, <2>3 DEF Generating
  <2>5. Conversation(r, u, w, s2)
    BY <2>4 DEF Conversation
  <2>. QED BY <2>2, <2>5 DEF x, v
<1>. QED BY <1>3, <1>4

LEMMA BrokenOff ==
  ASSUME NEW r \in Chat!Requests, NEW u, NEW w \in Seq(Events), NEW s,
         Conversation(r, u, w, s), s.at # "over", NEW s2, s2.at = "over"
  PROVE  Conversation(r, u, w \o <<Chat!Event("error")>>, s2)
<1> DEFINE v == <<Chat!Event("error")>>
           x == w \o v
<1>1. v \in Seq(Events) /\ Len(v) = 1 /\ v[1] = Chat!Event("error")
  BY EventsAre
<1> HIDE DEF v
<1>2. /\ x \in Seq(Events) /\ Len(x) = Len(w) + 1 /\ Len(w) \in Nat
      /\ x[Len(w) + 1] = Chat!Event("error")
  <2>1. /\ x \in Seq(Events) /\ Len(x) = Len(w) + Len(v) /\ Len(w) \in Nat
        /\ \A i \in 1 .. Len(w) + Len(v) : x[i] = IF i <= Len(w) THEN w[i] ELSE v[i - Len(w)]
    BY <1>1, ConcatProperties, LenProperties
  <2>. QED BY <1>1, <2>1
<1>3. \A j \in 1 .. Len(w) : Fits(r, u, x, j)
  BY <1>1, OldFits
<1> HIDE DEF x
<1>4. \A j \in 1 .. Len(x) : j \in 1 .. Len(w) \/ j = Len(w) + 1
  BY <1>2
<1>5. WireFits(r, u, x)
  BY <1>2, <1>3, <1>4 DEF WireFits, Fits
<1>. QED BY <1>5, NoCardsYet DEF Conversation, x, v

\* An event is taken from the wire and applied to the page.
Applied(e, u, u2) ==
    \/ e.kind = "text" /\ u2.text = Append(u.text, e.payload) /\ u2.cards = u.cards
    \/ e.kind = "reset" /\ u2.text = <<>> /\ u2.cards = FALSE
    \/ e.kind = "cards" /\ u2.text = u.text /\ u2.cards = TRUE

LEMMA Told ==
  ASSUME NEW r \in Chat!Requests, NEW u, NEW w \in Seq(Events), NEW s, NEW u2,
         Conversation(r, u, w, s), w # <<>>, Applied(Head(w), u, u2)
  PROVE  Conversation(r, u2, Tail(w), s)
<1> DEFINE x == Tail(w)
<1>1. /\ Len(w) \in Counts /\ Len(x) = Len(w) - 1 /\ x \in Seq(Events) /\ Head(w) = w[1]
      /\ \A i \in 1 .. Len(x) : x[i] = w[i + 1]
  BY HeadTailProperties, EmptySeq DEF Counts
<1> HIDE DEF x
<1>2. Fits(r, u, w, 1)
  BY <1>1 DEF Conversation, WireFits, Counts
<1>3. \/ TextFits(r, u, w, 1) /\ w[1].kind = "text"
      \/ CardsFit(r, u, w, 1) /\ w[1].kind = "cards"
      \/ w[1] = Chat!Event("reset") /\ w[1].kind = "reset"
  BY <1>1, <1>2, FitKinds DEF Fits, Applied
<1>4. ~u.cards
  <2> SUFFICES ASSUME u.cards PROVE FALSE
    OBVIOUS
  <2>1. PICK a \in Attempts, n \in Counts : w = <<Chat!Done(r, a, n, TRUE)>>
    BY DEF Conversation
  <2>2. w[1] = Chat!Done(r, a, n, TRUE)
    BY <2>1
  <2>3. w[1].kind = "done"
    BY <2>2 DEF Chat!Done
  <2>. QED BY <1>3, <2>3
<1>5. Attempts \subseteq Nat /\ 1 \in Attempts
  BY ChatAssumption DEF Attempts
\* What is shown now is what the first event told.
<1>6. \A a \in Attempts, n \in Nat :
        w[1] = (IF n = 0 THEN Chat!Event("reset") ELSE TextEvent(r, a, n))
          => u2.text = Chat!Whole(r, a, n)
  <2> SUFFICES ASSUME NEW a \in Attempts, NEW n \in Nat,
                      w[1] = (IF n = 0 THEN Chat!Event("reset") ELSE TextEvent(r, a, n))
               PROVE  u2.text = Chat!Whole(r, a, n)
    OBVIOUS
  <2>1. CASE n = 0
    <3>1. w[1].kind = "reset"
      BY <2>1, EventKinds
    <3>. QED BY <1>1, <1>5, <2>1, <3>1, Wholes DEF Applied
  <2>2. CASE n # 0
    <3>1. w[1].kind = "text" /\ w[1].payload = <<r, a, n>>
      BY <2>2, EventKinds
    <3>2. PICK b \in Attempts, m \in Counts :
            w[1] = TextEvent(r, b, m) /\ u.text = Chat!Whole(r, b, m - 1)
      BY <1>3, <3>1 DEF TextFits, Upto
    <3>3. b = a /\ m = n
      <4>1. w[1].payload = <<r, b, m>>
        BY <3>2, EventKinds
      <4>. QED BY <3>1, <4>1
    <3>4. m - 1 \in Nat /\ (m - 1) + 1 = m
      BY <3>2 DEF Counts
    <3>5. Append(Chat!Whole(r, a, n - 1), <<r, a, n>>) = Chat!Whole(r, a, n)
      <4>1. a \in Nat /\ n - 1 \in Nat /\ (n - 1) + 1 = n
        BY <1>5, <3>3, <3>4
      <4>2. Append(Chat!Whole(r, a, n - 1), <<r, a, (n - 1) + 1>>) = Chat!Whole(r, a, (n - 1) + 1)
        BY <4>1, Wholes
      <4>. QED BY <4>1, <4>2
    <3>. QED BY <1>1, <3>1, <3>2, <3>3, <3>5 DEF Applied
  <2>. QED BY <2>1, <2>2
<1>7. \A j \in 1 .. Len(w), a \in Attempts, n \in Nat :
        Upto(r, u, w, j + 1, a, n) => Upto(r, u2, x, j, a, n)
  <2> SUFFICES ASSUME NEW j \in 1 .. Len(w), NEW a \in Attempts, NEW n \in Nat,
                      Upto(r, u, w, j + 1, a, n)
               PROVE  Upto(r, u2, x, j, a, n)
    OBVIOUS
  <2>1. w[j] = IF n = 0 THEN Chat!Event("reset") ELSE TextEvent(r, a, n)
    <3>1. j + 1 # 1 /\ (j + 1) - 1 = j
      OBVIOUS
    <3>. QED BY <3>1 DEF Upto
  <2>2. CASE j = 1
    BY <1>6, <2>1, <2>2 DEF Upto
  <2>3. CASE j # 1
    <3>1. j - 1 \in 1 .. Len(x) /\ (j - 1) + 1 = j
      BY <1>1, <2>3 DEF Counts
    <3>. QED BY <1>1, <2>1, <2>3, <3>1 DEF Upto
  <2>. QED BY <2>2, <2>3
\* The cards were told last.
<1>8. ASSUME w[1].kind = "cards"
      PROVE  /\ \E a \in Attempts, n \in Counts :
                  /\ u.text = Chat!Whole(r, a, n) /\ w[2] = Chat!Done(r, a, n, TRUE)
             /\ Len(w) = 2
  <2>1. PICK a \in Attempts, n \in Counts :
          u.text = Chat!Whole(r, a, n) /\ w[1 + 1] = Chat!Done(r, a, n, TRUE)
    BY <1>3, <1>8 DEF CardsFit, Upto
  <2>2. 2 \in 1 .. Len(w) /\ w[2] = Chat!Done(r, a, n, TRUE)
    <3>1. 1 < Len(w)
      BY <1>3, <1>8 DEF CardsFit
    <3>2. 1 + 1 = 2 /\ 2 \in 1 .. Len(w)
      BY <1>1, <3>1 DEF Counts
    <3>. QED BY <2>1, <3>2
  <2>3. Fits(r, u, w, 2) /\ w[2].kind = "done"
    <3>1. w[2].kind = "done"
      BY <2>2 DEF Chat!Done
    <3>. QED BY <2>2, <3>1 DEF Conversation, WireFits
  <2>4. DoneFits(r, u, w, 2)
    BY <2>3, FitKinds DEF Fits
  <2>5. Len(w) = 2
    BY <2>4 DEF DoneFits
  <2>. QED BY <2>1, <2>2, <2>5
<1>9. WireFits(r, u2, x)
  <2> SUFFICES ASSUME NEW j \in 1 .. Len(x) PROVE Fits(r, u2, x, j)
    BY DEF WireFits
  <2>1. j + 1 \in 1 .. Len(w) /\ j \in 1 .. Len(w) /\ x[j] = w[j + 1] /\ j \in Nat
    BY <1>1 DEF Counts
  <2>2. Fits(r, u, w, j + 1)
    BY <2>1 DEF Conversation, WireFits
  <2>3. CASE TextFits(r, u, w, j + 1)
    <3>1. PICK a \in Attempts, n \in Counts :
            w[j + 1] = TextEvent(r, a, n) /\ Upto(r, u, w, j + 1, a, n - 1)
      BY <2>3 DEF TextFits
    <3>2. n - 1 \in Nat
      BY <3>1 DEF Counts
    <3>3. Upto(r, u2, x, j, a, n - 1)
      BY <1>7, <2>1, <3>1, <3>2
    <3>. QED BY <2>1, <3>1, <3>3 DEF Fits, TextFits
  <2>4. CASE CardsFit(r, u, w, j + 1)
    <3>1. PICK a \in Attempts, n \in Counts :
            w[(j + 1) + 1] = Chat!Done(r, a, n, TRUE) /\ Upto(r, u, w, j + 1, a, n)
      BY <2>4 DEF CardsFit
    <3>2. w[j + 1] = Chat!Event("cards") /\ j + 1 < Len(w)
      BY <2>4 DEF CardsFit
    <3>3. j < Len(x) /\ x[j + 1] = w[(j + 1) + 1]
      BY <1>1, <2>1, <3>2 DEF Counts
    <3>4. Upto(r, u2, x, j, a, n)
      BY <1>7, <2>1, <3>1 DEF Counts
    <3>. QED BY <2>1, <3>1, <3>2, <3>3, <3>4 DEF Fits, CardsFit
  <2>5. CASE DoneFits(r, u, w, j + 1)
    <3>1. j = Len(x) /\ (j + 1) - 1 = j /\ j + 1 # 1
      BY <1>1, <2>1, <2>5 DEF DoneFits, Counts
    <3>2. PICK a \in Attempts, n \in Counts :
            \/ /\ w[j + 1] = Chat!Done(r, a, n, TRUE)
               /\ w[j] = Chat!Event("cards")
            \/ w[j + 1] = Chat!Done(r, a, n, FALSE) /\ Upto(r, u, w, j + 1, a, n)
      BY <2>1, <2>5, <3>1 DEF DoneFits
    <3>3. CASE w[j + 1] = Chat!Done(r, a, n, FALSE) /\ Upto(r, u, w, j + 1, a, n)
      <4>1. Upto(r, u2, x, j, a, n)
        BY <1>7, <2>1, <3>3 DEF Counts
      <4>. QED BY <2>1, <3>1, <3>3, <4>1 DEF Fits, DoneFits
    <3>4. CASE w[j + 1] = Chat!Done(r, a, n, TRUE) /\ w[j] = Chat!Event("cards") /\ j # 1
      <4>1. x[j - 1] = Chat!Event("cards")
        BY <1>1, <2>1, <3>4
      <4>. QED BY <2>1, <3>1, <3>4, <4>1 DEF Fits, DoneFits
    <3>5. CASE w[j + 1] = Chat!Done(r, a, n, TRUE) /\ w[j] = Chat!Event("cards") /\ j = 1
      <4>1. w[1].kind = "cards"
        BY <3>5, EventKinds
      <4>2. PICK b \in Attempts, m \in Counts :
              u.text = Chat!Whole(r, b, m) /\ w[2] = Chat!Done(r, b, m, TRUE)
        BY <1>8, <4>1
      <4>3. u2.text = u.text /\ u2.cards = TRUE
        BY <1>1, <4>1 DEF Applied
      <4>4. x[j] = Chat!Done(r, b, m, TRUE) /\ u2.text = Chat!Whole(r, b, m)
        <5>1. j + 1 = 2
          BY <3>5
        <5>. QED BY <2>1, <4>2, <4>3, <5>1
      <4>. QED BY <3>1, <3>5, <4>3, <4>4 DEF Fits, DoneFits
    <3>. QED BY <3>2, <3>3, <3>4, <3>5
  <2>6. CASE w[j + 1] \in {Chat!Event("reset"), Chat!Event("error")}
    BY <2>1, <2>6 DEF Fits
  <2>. QED BY <2>2, <2>3, <2>4, <2>5, <2>6 DEF Fits
<1>10. s.at # "over" => Generating(r, u2, x, s)
  <2> SUFFICES ASSUME s.at # "over" PROVE Generating(r, u2, x, s)
    OBVIOUS
  <2>1. Generating(r, u, w, s)
    BY DEF Conversation
  <2>2. Upto(r, u2, x, Len(w), s.attempt, s.sent)
    BY <1>1, <1>7, <2>1 DEF Generating, Counts
  <2>3. Len(x) + 1 = Len(w) /\ \A j \in 1 .. Len(x) : j + 1 \in 1 .. Len(w)
    BY <1>1 DEF Counts
  <2>. QED BY <1>1, <2>1, <2>2, <2>3 DEF Generating
<1>11. \E a \in Attempts, n \in Nat : u2.text = Chat!Whole(r, a, n)
  <2>1. CASE w[1].kind = "text"
    <3>1. PICK a \in Attempts, n \in Counts : w[1] = TextEvent(r, a, n)
      BY <1>3, <2>1 DEF TextFits
    <3>2. n \in Nat /\ n # 0
      BY <3>1 DEF Counts
    <3>. QED BY <1>6, <3>1, <3>2
  <2>2. CASE w[1].kind = "reset"
    BY <1>1, <1>5, <2>2, Wholes DEF Applied
  <2>3. CASE w[1].kind = "cards"
    BY <1>1, <2>3 DEF Applied, Conversation
  <2>. QED BY <1>3, <2>1, <2>2, <2>3
<1>12. u2.cards => \E a \in Attempts, n \in Counts : x = <<Chat!Done(r, a, n, TRUE)>>
  <2> SUFFICES ASSUME u2.cards
               PROVE  \E a \in Attempts, n \in Counts : x = <<Chat!Done(r, a, n, TRUE)>>
    OBVIOUS
  <2>1. w[1].kind = "cards"
    BY <1>1, <1>4 DEF Applied
  <2>2. PICK a \in Attempts, n \in Counts : w[2] = Chat!Done(r, a, n, TRUE)
    BY <1>8, <2>1
  <2>3. Len(x) = 1 /\ x[1] = w[2]
    <3>1. Len(w) = 2
      BY <1>8, <2>1
    <3>2. Len(x) = 1
      BY <1>1, <3>1
    <3>3. x[1] = w[2]
      <4>1. 1 \in 1 .. Len(x) /\ 1 + 1 = 2
        BY <3>2
      <4>. QED BY <1>1, <4>1
    <3>. QED BY <3>2, <3>3
  <2> DEFINE d == Chat!Done(r, a, n, TRUE)
  <2>4. d \in Events /\ x[1] = d
    <3>1. a \in Nat /\ n \in Nat
      BY <1>5 DEF Counts
    <3>. QED BY <2>2, <2>3, <3>1, EventsAre
  <2> HIDE DEF d
  <2>5. <<d>> \in Seq(Events) /\ Len(<<d>>) = 1 /\ <<d>>[1] = d
    BY <2>4
  <2>6. x = <<d>>
    BY <1>1, <2>3, <2>4, <2>5, SeqEqual
  <2>. QED BY <2>6 DEF d
<1>. QED BY <1>9, <1>10, <1>11, <1>12 DEF Conversation, x

\* At the end, what is shown is what the server resolved.
LEMMA Ended ==
  ASSUME NEW r \in Chat!Requests, NEW u, NEW w \in Seq(Events), NEW s,
         Conversation(r, u, w, s), w # <<>>, Head(w).kind = "done", u.cards \in BOOLEAN
  PROVE  Head(w).payload = [text |-> u.text, cards |-> u.cards]
<1>1. Len(w) \in Counts /\ Head(w) = w[1] /\ 1 \in 1 .. Len(w)
  BY HeadTailProperties, EmptySeq DEF Counts
<1>2. Fits(r, u, w, 1)
  BY <1>1 DEF Conversation, WireFits
<1>3. DoneFits(r, u, w, 1)
  BY <1>1, <1>2, FitKinds DEF Fits
<1>4. PICK a \in Attempts, n \in Counts :
        \/ w[1] = Chat!Done(r, a, n, TRUE) /\ u.cards /\ u.text = Chat!Whole(r, a, n)
        \/ w[1] = Chat!Done(r, a, n, FALSE) /\ u.text = Chat!Whole(r, a, n)
  BY <1>3 DEF DoneFits, Upto
<1>5. CASE w[1] = Chat!Done(r, a, n, TRUE) /\ u.cards /\ u.text = Chat!Whole(r, a, n)
  <2>1. u.cards = TRUE
    BY <1>5
  <2>2. w[1].payload = [text |-> u.text, cards |-> TRUE]
    BY <1>5 DEF Chat!Done
  <2>. QED BY <1>1, <2>1, <2>2
<1>6. CASE w[1] = Chat!Done(r, a, n, FALSE) /\ u.text = Chat!Whole(r, a, n)
  <2>1. w[1].payload = [text |-> u.text, cards |-> FALSE]
    BY <1>6 DEF Chat!Done
  <2>2. u.cards = FALSE
    <3> SUFFICES ASSUME u.cards PROVE FALSE
      OBVIOUS
    <3>1. PICK b \in Attempts, m \in Counts : w = <<Chat!Done(r, b, m, TRUE)>>
      BY DEF Conversation
    <3>2. w[1] = Chat!Done(r, b, m, TRUE)
      BY <3>1
    <3>3. w[1].payload.cards = TRUE
      BY <3>2 DEF Chat!Done
    <3>. QED BY <2>1, <3>3
  <2>. QED BY <1>1, <2>1, <2>2
<1>. QED BY <1>4, <1>5, <1>6

-----------------------------------------------------------------------------
(* What is kept of the conversation.                                       *)

Message ==
    [from : {"user"}, request : Chat!Requests]
      \cup [from : {"assistant"}, request : Chat!Requests, incomplete : BOOLEAN, whole : BOOLEAN]

Question(r) == [from |-> "user", request |-> r]

\* Chat!AnswersInPlace of any messages.
InPlace(messages) ==
    \A i \in DOMAIN messages :
        messages[i].from = "assistant" =>
            /\ i > 1 => messages[i - 1] = Question(messages[i].request)
            /\ i = 1 => Len(messages) >= MaxStored
            /\ messages[i].incomplete \/ messages[i].whole

Page == [messages : Seq(Message), streaming : BOOLEAN, text : Seq(Piece), cards : BOOLEAN]

ChatTypes ==
    /\ request \in [Chat!Requests -> {"unused", "sent", "resent", "open", "closed"}]
    /\ server \in [Chat!Requests ->
                     [at : {"idle", "prepare", "stream", "over"}, attempt : Nat, sent : Nat]]
    /\ wire \in [Chat!Requests -> Seq(Events)]
    /\ ui \in Page /\ shown \in Page
    /\ due \subseteq {"messages", "text", "cards"}
    /\ ref \in [text : Seq(Piece), cards : BOOLEAN]
    /\ active \in Chat!Requests \cup {0}
    /\ saved \in Seq(Message) /\ restoring \in Seq(Message)
    /\ raced \in BOOLEAN

UnderWay(r) == request[r] \in {"sent", "resent", "open"}

\* One request at a time, and an answer on the wire that fits what is shown of it.
TurnInv ==
    /\ \A r \in Chat!Requests : UnderWay(r) => r = active /\ ui.streaming /\ shown.streaming
    /\ \A r \in Chat!Requests :
         request[r] \in {"unused", "sent", "resent"} => wire[r] = <<>> /\ server[r] = Chat!Idle
    /\ \A r \in Chat!Requests :
         request[r] = "open" => Conversation(r, ui, wire[r], server[r])
    /\ (\A r \in Chat!Requests : request[r] # "open") => ui.text = <<>> /\ ~ui.cards

\* What is stored, rendered or about to be restored is in place as well, and the refs
\* hold what the state holds.
KeptInv ==
    ~raced =>
        /\ InPlace(ui.messages) /\ InPlace(shown.messages)
        /\ InPlace(saved) /\ InPlace(restoring)
        /\ ref = [text |-> ui.text, cards |-> ui.cards]
        /\ \A r \in Chat!Requests : UnderWay(r) =>
             ui.messages # <<>> /\ ui.messages[Len(ui.messages)] = Question(r)

ChatInv == ChatTypes /\ TurnInv /\ KeptInv

LEMMA EmptyInPlace == <<>> \in Seq(Message) /\ InPlace(<<>>)
BY DEF InPlace

LEMMA QuestionInPlace ==
  ASSUME NEW messages \in Seq(Message), NEW r \in Chat!Requests
  PROVE  LET x == Append(messages, Question(r))
         IN  /\ x \in Seq(Message) /\ x # <<>> /\ x[Len(x)] = Question(r)
             /\ InPlace(messages) => InPlace(x)
<1> DEFINE x == Append(messages, Question(r))
<1>1. Question(r) \in Message /\ Question(r).from = "user"
  BY DEF Message, Question
<1>2. /\ x \in Seq(Message) /\ Len(x) = Len(messages) + 1 /\ Len(messages) \in Nat
      /\ x[Len(messages) + 1] = Question(r)
      /\ \A i \in 1 .. Len(messages) : x[i] = messages[i]
      /\ DOMAIN x = 1 .. Len(x) /\ DOMAIN messages = 1 .. Len(messages)
  BY <1>1
<1> HIDE DEF x
<1>3. x # <<>>
  BY <1>2, EmptySeq
<1>4. ASSUME InPlace(messages) PROVE InPlace(x)
  <2> SUFFICES ASSUME NEW i \in DOMAIN x, x[i].from = "assistant"
               PROVE  /\ i > 1 => x[i - 1] = Question(x[i].request)
                      /\ i = 1 => Len(x) >= MaxStored
                      /\ x[i].incomplete \/ x[i].whole
    BY DEF InPlace
  <2>1. i \in 1 .. Len(messages)
    <3>1. i \in 1 .. Len(messages) \/ i = Len(messages) + 1
      BY <1>2
    <3>. QED BY <1>1, <1>2, <3>1
  <2>2. x[i] = messages[i] /\ (i > 1 => x[i - 1] = messages[i - 1])
    BY <1>2, <2>1
  <2>. QED BY <1>2, <1>4, <2>1, <2>2, ChatAssumption DEF InPlace
<1>. QED BY <1>2, <1>3, <1>4 DEF x

LEMMA AnswerInPlace ==
  ASSUME NEW messages \in Seq(Message), NEW r \in Chat!Requests,
         NEW answer \in Message, answer.from = "assistant", answer.request = r
  PROVE  LET x == Append(messages, answer)
         IN  /\ x \in Seq(Message)
             /\ InPlace(messages) /\ messages # <<>> /\ messages[Len(messages)] = Question(r)
                  /\ (answer.incomplete \/ answer.whole) => InPlace(x)
<1> DEFINE x == Append(messages, answer)
<1>1. /\ x \in Seq(Message) /\ Len(x) = Len(messages) + 1 /\ Len(messages) \in Nat
      /\ x[Len(messages) + 1] = answer
      /\ \A i \in 1 .. Len(messages) : x[i] = messages[i]
      /\ DOMAIN x = 1 .. Len(x) /\ DOMAIN messages = 1 .. Len(messages)
  OBVIOUS
<1> HIDE DEF x
<1>2. ASSUME InPlace(messages), messages # <<>>, messages[Len(messages)] = Question(r),
             answer.incomplete \/ answer.whole
      PROVE  InPlace(x)
  <2> SUFFICES ASSUME NEW i \in DOMAIN x, x[i].from = "assistant"
               PROVE  /\ i > 1 => x[i - 1] = Question(x[i].request)
                      /\ i = 1 => Len(x) >= MaxStored
                      /\ x[i].incomplete \/ x[i].whole
    BY DEF InPlace
  <2>1. CASE i \in 1 .. Len(messages)
    <3>1. x[i] = messages[i] /\ (i > 1 => x[i - 1] = messages[i - 1])
      BY <1>1, <2>1
    <3>. QED BY <1>1, <1>2, <2>1, <3>1, ChatAssumption DEF InPlace
  <2>2. CASE i = Len(messages) + 1
    <3>1. Len(messages) \in Nat \ {0}
      BY <1>2, EmptySeq
    <3>2. x[i - 1] = messages[Len(messages)] /\ i # 1
      BY <1>1, <2>2, <3>1
    <3>. QED BY <1>1, <1>2, <2>2, <3>2
  <2>. QED BY <1>1, <2>1, <2>2
<1>. QED BY <1>1, <1>2 DEF x

\* The oldest messages are dropped: an answer may lose its question only as the first.
LEMMA LatestInPlace ==
  ASSUME NEW messages \in Seq(Message)
  PROVE  LET x == Chat!Latest(messages)
         IN  x \in Seq(Message) /\ (InPlace(messages) => InPlace(x))
<1> DEFINE x == Chat!Latest(messages)
<1>1. CASE Len(messages) > MaxStored
  <2> DEFINE k == Len(messages) - MaxStored
  <2>1. k \in Nat /\ Len(messages) \in Nat /\ MaxStored \in Nat \ {0} /\ k >= 1
        /\ Len(messages) = k + MaxStored
    BY <1>1, ChatAssumption, LenProperties
  <2>2. x = SubSeq(messages, k + 1, Len(messages))
    BY <1>1 DEF Chat!Latest
  <2> HIDE DEF k, x
  <2>3. /\ x \in Seq(Message) /\ Len(x) = MaxStored
        /\ \A i \in 1 .. MaxStored : x[i] = messages[k + i]
    <3>1. \A i \in (k + 1) .. Len(messages) : messages[i] \in Message
      BY <2>1, ElementOfSeq
    <3>2. /\ SubSeq(messages, k + 1, Len(messages)) \in Seq(Message)
          /\ Len(SubSeq(messages, k + 1, Len(messages))) =
               IF k + 1 <= Len(messages) THEN Len(messages) - (k + 1) + 1 ELSE 0
          /\ \A i \in 1 .. Len(messages) - (k + 1) + 1 :
               SubSeq(messages, k + 1, Len(messages))[i] = messages[(k + 1) + i - 1]
      BY <2>1, <3>1, SubSeqProperties
    <3>3. Len(messages) - (k + 1) + 1 = MaxStored /\ k + 1 <= Len(messages)
      BY <2>1
    <3>4. \A i \in 1 .. MaxStored : (k + 1) + i - 1 = k + i
      BY <2>1
    <3>. QED BY <2>2, <3>2, <3>3, <3>4
  <2>4. ASSUME InPlace(messages) PROVE InPlace(x)
    <3> SUFFICES ASSUME NEW i \in DOMAIN x, x[i].from = "assistant"
                 PROVE  /\ i > 1 => x[i - 1] = Question(x[i].request)
                        /\ i = 1 => Len(x) >= MaxStored
                        /\ x[i].incomplete \/ x[i].whole
      BY DEF InPlace
    <3>1. i \in 1 .. MaxStored /\ k + i \in 1 .. Len(messages) /\ k + i > 1
      BY <2>1, <2>3, LenProperties
    <3>2. x[i] = messages[k + i]
      BY <2>3, <3>1
    <3>3. i > 1 => x[i - 1] = messages[(k + i) - 1]
      <4>1. i > 1 => i - 1 \in 1 .. MaxStored /\ k + (i - 1) = (k + i) - 1
        BY <2>1, <3>1
      <4>. QED BY <2>3, <4>1
    <3>4. messages[(k + i) - 1] = Question(messages[k + i].request)
          /\ (messages[k + i].incomplete \/ messages[k + i].whole)
      BY <2>4, <3>1, <3>2, LenProperties DEF InPlace
    <3>. QED BY <2>1, <2>3, <3>2, <3>3, <3>4
  <2>. QED BY <2>3, <2>4 DEF x
<1>2. CASE ~(Len(messages) > MaxStored)
  BY <1>2 DEF Chat!Latest
<1>. QED BY <1>1, <1>2

LEMMA SameConversation ==
  ASSUME NEW r, NEW u, NEW w, NEW s, NEW u2, u2.text = u.text, u2.cards = u.cards,
         Conversation(r, u, w, s)
  PROVE  Conversation(r, u2, w, s)
<1>1. \A j, a, n : Upto(r, u, w, j, a, n) <=> Upto(r, u2, w, j, a, n)
  BY DEF Upto
<1>2. \A j : Fits(r, u, w, j) => Fits(r, u2, w, j)
  BY <1>1 DEF Fits, TextFits, CardsFit, DoneFits
<1>. QED BY <1>1, <1>2 DEF Conversation, WireFits, Generating

-----------------------------------------------------------------------------
(* The invariant of the chat: its steps.                                   *)

ServerStates == [at : {"idle", "prepare", "stream", "over"}, attempt : Nat, sent : Nat]

LEMMA ChatBegins == Chat!Init => ChatInv
<1> SUFFICES ASSUME Chat!Init PROVE ChatInv
  OBVIOUS
<1>1. \A r \in Chat!Requests : request[r] = "unused" /\ server[r] = Chat!Idle /\ wire[r] = <<>>
  BY DEF Chat!Init
<1>2. ui = Chat!Blank /\ shown = Chat!Blank /\ due = {} /\ ref = Chat!NoStream /\ active = 0
      /\ saved = <<>> /\ restoring = <<>> /\ raced = FALSE
  BY DEF Chat!Init
<1>3. ChatTypes
  <2>1. Chat!Blank \in Page /\ Chat!NoStream \in [text : Seq(Piece), cards : BOOLEAN]
    BY EmptySeq DEF Chat!Blank, Chat!NoStream, Page
  <2>2. Chat!Idle \in [at : {"idle", "prepare", "stream", "over"}, attempt : Nat, sent : Nat]
    BY DEF Chat!Idle
  <2>. QED BY <1>2, <2>1, <2>2, EmptySeq DEF ChatTypes, Chat!Init
<1>4. TurnInv
  BY <1>1, <1>2 DEF TurnInv, UnderWay, Chat!Blank
<1>5. KeptInv
  BY <1>1, <1>2, EmptyInPlace DEF KeptInv, UnderWay, Chat!Blank, Chat!NoStream
<1>. QED BY <1>3, <1>4, <1>5 DEF ChatInv

\* A step of the server.
LEMMA ServerStep ==
  ASSUME ChatInv, NEW r \in Chat!Requests, request[r] = "open",
         UNCHANGED <<request, Chat!browser>>,
         NEW s \in ServerStates, server' = [server EXCEPT ![r] = s],
         NEW w \in Seq(Events), wire' = [wire EXCEPT ![r] = w],
         Conversation(r, ui, w, s)
  PROVE  ChatInv'
<1>1. /\ UNCHANGED <<request, ui, shown, due, ref, active, saved, restoring, raced>>
      /\ \A q \in Chat!Requests : /\ q # r => wire'[q] = wire[q] /\ server'[q] = server[q]
                                  /\ q = r => wire'[q] = w /\ server'[q] = s
  BY DEF Chat!browser, ChatInv, ChatTypes
<1>2. ChatTypes'
  BY <1>1 DEF ChatInv, ChatTypes, ServerStates
<1>3. TurnInv'
  BY <1>1 DEF ChatInv, TurnInv, UnderWay
<1>4. KeptInv'
  BY <1>1 DEF ChatInv, KeptInv, UnderWay
<1>. QED BY <1>2, <1>3, <1>4 DEF ChatInv

LEMMA ServeKept ==
  ASSUME ChatInv, NEW r \in Chat!Requests, Chat!Serve(r)
  PROVE  ChatInv'
<1> DEFINE w == wire[r]
           s == server[r]
           over == [Chat!Idle EXCEPT !.at = "over"]
<1>1. /\ request[r] = "open" /\ UNCHANGED <<request, Chat!browser>>
      /\ s.at \in {"prepare", "stream"}
  BY DEF Chat!Serve, Chat!Prepare, Chat!Delta, Chat!Finish, Chat!Invalid, Chat!Broken, Chat!Serves
<1>2. w \in Seq(Events) /\ s \in ServerStates /\ wire \in [Chat!Requests -> Seq(Events)]
      /\ server \in [Chat!Requests -> ServerStates]
  BY DEF ChatInv, ChatTypes, ServerStates
<1>3. Conversation(r, ui, w, s) /\ s.at # "over"
  BY <1>1 DEF ChatInv, TurnInv
<1>4. over \in ServerStates /\ over.at = "over"
  BY DEF ServerStates, Chat!Idle
<1>5. s.attempt \in Attempts /\ s.sent \in Nat
  BY <1>3 DEF Conversation, Generating
\* The end of an attempt: what was sent of it is taken back.
<1>6. ASSUME server' = [server EXCEPT ![r] = over],
             wire' = [wire EXCEPT ![r] = w \o (Chat!Reset(r) \o <<Chat!Event("error")>>)]
      PROVE  ChatInv'
  <2> DEFINE v == Chat!Reset(r)
             mid == [s EXCEPT !.at = "stream", !.sent = 0]
  <2>1. mid.at = "stream" /\ mid.attempt = s.attempt /\ mid.sent = 0
    BY <1>2 DEF ServerStates
  <2> HIDE DEF mid
  <2>2. v \in Seq(Events) /\ Conversation(r, ui, w \o v, mid)
    BY <1>2, <1>3, <1>5, <2>1, TakenBack DEF Chat!Reset
  <2> HIDE DEF v
  <2>3. w \o v \in Seq(Events) /\ <<Chat!Event("error")>> \in Seq(Events)
    BY <1>2, <2>2, ConcatProperties, EventsAre
  <2>4. Conversation(r, ui, (w \o v) \o <<Chat!Event("error")>>, over)
    BY <1>4, <2>1, <2>2, <2>3, BrokenOff
  <2>5. (w \o v) \o <<Chat!Event("error")>> = w \o (v \o <<Chat!Event("error")>>)
        /\ (w \o v) \o <<Chat!Event("error")>> \in Seq(Events)
    BY <1>2, <2>2, <2>3, ConcatAssociative, ConcatProperties
  <2>. QED BY <1>1, <1>4, <1>6, <2>4, <2>5, ServerStep DEF v
<1>7. CASE Chat!Prepare(r)
  <2>1. CASE server' = [server EXCEPT ![r].at = "stream"] /\ UNCHANGED wire
    <3> DEFINE s2 == [s EXCEPT !.at = "stream"]
    <3>1. s2 \in ServerStates /\ server' = [server EXCEPT ![r] = s2]
          /\ wire' = [wire EXCEPT ![r] = w]
      BY <1>2, <2>1 DEF ServerStates
    <3>2. s2.at = "stream" /\ s2.attempt = s.attempt /\ s2.sent = s.sent
      BY <1>2 DEF ServerStates
    <3> HIDE DEF s2
    <3>3. Conversation(r, ui, w, s2)
      BY <1>3, <3>2 DEF Conversation, Generating
    <3>. QED BY <1>1, <1>2, <3>1, <3>3, ServerStep
  <2>2. CASE Chat!Over(r) /\ Chat!Emit(r, <<Chat!Event("error")>>)
    <3>1. server' = [server EXCEPT ![r] = over]
          /\ wire' = [wire EXCEPT ![r] = w \o <<Chat!Event("error")>>]
      BY <2>2 DEF Chat!Over, Chat!Emit
    <3>2. w \o <<Chat!Event("error")>> \in Seq(Events)
      BY <1>2, ConcatProperties, EventsAre
    <3>3. Conversation(r, ui, w \o <<Chat!Event("error")>>, over)
      BY <1>2, <1>3, <1>4, BrokenOff
    <3>. QED BY <1>1, <1>4, <3>1, <3>2, <3>3, ServerStep
  <2>. QED BY <1>7, <2>1, <2>2 DEF Chat!Prepare
<1>8. CASE Chat!Delta(r)
  <2> DEFINE v == Chat!Texts(r, s.attempt, s.sent + 1, s.sent + 1)
             s2 == [s EXCEPT !.sent = s.sent + 1]
  <2>1. /\ server' = [server EXCEPT ![r] = s2] /\ wire' = [wire EXCEPT ![r] = w \o v]
        /\ s.at = "stream"
    BY <1>2, <1>8 DEF Chat!Delta, Chat!Emit, Chat!Serves
  <2>2. /\ s2.at = "stream" /\ s2.attempt = s.attempt /\ s2.sent = s.sent + 1
        /\ s2 \in ServerStates
    <3>1. s.sent + 1 \in Nat
      BY <1>5
    <3>. QED BY <1>2, <2>1, <3>1 DEF ServerStates
  <2>3. s.sent + 1 \in Nat /\ s.sent + 1 >= s.sent
    BY <1>5
  <2> HIDE DEF s2
  <2>4. v \in Seq(Events) /\ Conversation(r, ui, w \o v, s2)
    BY <1>2, <1>3, <2>2, <2>3, MoreText
  <2>5. w \o v \in Seq(Events)
    BY <1>2, <2>4, ConcatProperties
  <2>. QED BY <1>1, <2>1, <2>2, <2>4, <2>5, ServerStep
<1>9. CASE Chat!Finish(r)
  <2>1. PICK n \in s.sent .. Pieces, cards \in BOOLEAN :
          /\ n > 0
          /\ wire' = [wire EXCEPT ![r] = w \o
               ((Chat!Texts(r, s.attempt, s.sent + 1, n)
                   \o (IF cards THEN <<Chat!Event("cards")>> ELSE <<>>))
                   \o <<Chat!Done(r, s.attempt, n, cards)>>)]
    BY <1>9 DEF Chat!Finish, Chat!Emit
  <2> DEFINE v == Chat!Texts(r, s.attempt, s.sent + 1, n)
             c == IF cards THEN <<Chat!Event("cards")>> ELSE <<>>
             d == <<Chat!Done(r, s.attempt, n, cards)>>
             mid == [s EXCEPT !.at = "stream", !.sent = n]
  <2>2. n \in Nat /\ n >= s.sent /\ n \in Counts
    BY <1>5, <2>1, ChatAssumption DEF Counts
  <2>3. mid.at = "stream" /\ mid.attempt = s.attempt /\ mid.sent = n
    BY <1>2 DEF ServerStates
  <2> HIDE DEF mid
  <2>4. v \in Seq(Events) /\ Conversation(r, ui, w \o v, mid)
    BY <1>2, <1>3, <2>2, <2>3, MoreText
  <2>5. w \o v \in Seq(Events)
    BY <1>2, <2>4, ConcatProperties
  <2>6. Conversation(r, ui, (w \o v) \o (c \o d), over)
    BY <1>4, <2>2, <2>3, <2>4, <2>5, Finished
  <2>7. c \in Seq(Events) /\ d \in Seq(Events)
    <3>1. Chat!Done(r, s.attempt, n, cards) \in Events
      BY <1>5, <2>2, EventsAre, ChatAssumption DEF Attempts
    <3>. QED BY <3>1, EventsAre, EmptySeq
  <2> HIDE DEF v, c, d
  <2>8. (w \o v) \o (c \o d) = w \o ((v \o c) \o d) /\ (w \o v) \o (c \o d) \in Seq(Events)
    <3>1. w \in Seq(Events) /\ v \in Seq(Events) /\ c \in Seq(Events) /\ d \in Seq(Events)
      BY <1>2, <2>4, <2>7
    <3> HIDE DEF w
    <3>2. c \o d \in Seq(Events)
      BY <3>1, ConcatProperties
    <3>3. (w \o v) \o (c \o d) = w \o (v \o (c \o d))
      <4> DEFINE e == c \o d
      <4>1. e \in Seq(Events)
        BY <3>2
      <4> HIDE DEF e
      <4>2. (w \o v) \o e = w \o (v \o e)
        BY <3>1, <4>1, ConcatAssociative
      <4>. QED BY <4>2 DEF e
    <3>4. (v \o c) \o d = v \o (c \o d)
      BY <3>1, ConcatAssociative
    <3>5. (w \o v) \o (c \o d) \in Seq(Events)
      BY <2>5, <3>2, ConcatProperties
    <3>. QED BY <3>3, <3>4, <3>5
  <2>9. wire' = [wire EXCEPT ![r] = (w \o v) \o (c \o d)]
    BY <2>1, <2>8 DEF v, c, d
  <2>10. server' = [server EXCEPT ![r] = over]
    BY <1>9 DEF Chat!Finish, Chat!Over
  <2>. QED BY <1>1, <1>4, <2>6, <2>8, <2>9, <2>10, ServerStep
<1>10. CASE Chat!Invalid(r)
  <2>1. CASE s.attempt < MaxAttempts
    <3> DEFINE v == Chat!Reset(r)
               s2 == [s EXCEPT !.attempt = s.attempt + 1, !.sent = 0]
    <3>1. /\ server' = [server EXCEPT ![r] = s2] /\ wire' = [wire EXCEPT ![r] = w \o v]
          /\ s.at = "stream"
      BY <1>2, <1>10, <2>1 DEF Chat!Invalid, Chat!Emit, Chat!Serves
    <3>2. /\ s2.at = "stream" /\ s2.attempt = s.attempt + 1 /\ s2.sent = 0
          /\ s2 \in ServerStates
      <4>1. s.attempt + 1 \in Nat
        BY <1>2 DEF ServerStates
      <4>. QED BY <1>2, <3>1, <4>1 DEF ServerStates
    <3>3. s.attempt + 1 \in Attempts
      BY <1>5, <2>1, ChatAssumption DEF Attempts
    <3> HIDE DEF s2
    <3>4. v \in Seq(Events) /\ Conversation(r, ui, w \o v, s2)
      BY <1>2, <1>3, <3>2, <3>3, TakenBack DEF Chat!Reset
    <3>5. w \o v \in Seq(Events)
      BY <1>2, <3>4, ConcatProperties
    <3>. QED BY <1>1, <3>1, <3>2, <3>4, <3>5, ServerStep
  <2>2. CASE ~(s.attempt < MaxAttempts)
    BY <1>6, <1>10, <2>2 DEF Chat!Invalid, Chat!Over, Chat!Emit
  <2>. QED BY <2>1, <2>2
<1>11. CASE Chat!Broken(r)
  BY <1>6, <1>11 DEF Chat!Broken, Chat!Over, Chat!Emit
<1>. QED BY <1>7, <1>8, <1>9, <1>10, <1>11 DEF Chat!Serve

\* The effects of a rendering give what was rendered.
LEMMA EffectValues ==
  ASSUME ChatInv
  PROVE  /\ Chat!SavedAfter \in Seq(Message)
         /\ ~raced => InPlace(Chat!SavedAfter)
         /\ Chat!RefAfter \in [text : Seq(Piece), cards : BOOLEAN]
<1>1. shown.messages \in Seq(Message) /\ saved \in Seq(Message)
  BY DEF ChatInv, ChatTypes, Page
<1>2. /\ Chat!Latest(shown.messages) \in Seq(Message)
      /\ InPlace(shown.messages) => InPlace(Chat!Latest(shown.messages))
  BY <1>1, LatestInPlace
<1>3. Chat!SavedAfter \in {saved, Chat!Latest(shown.messages)}
  BY DEF Chat!SavedAfter
<1>4. Chat!RefAfter \in [text : Seq(Piece), cards : BOOLEAN]
  BY DEF Chat!RefAfter, ChatInv, ChatTypes, Page
<1>. QED BY <1>1, <1>2, <1>3, <1>4 DEF ChatInv, KeptInv

LEMMA EffectsKept == ASSUME ChatInv, Chat!Effects PROVE ChatInv'
<1>1. /\ UNCHANGED <<request, server, wire, ui, shown, active, restoring>>
      /\ ref' = Chat!RefAfter /\ saved' = Chat!SavedAfter /\ due' = {}
      /\ raced' = (raced \/ Chat!RefAfter # [text |-> ui.text, cards |-> ui.cards])
  BY DEF Chat!Effects
<1>2. raced' \in BOOLEAN /\ (~raced' => ~raced /\ ref' = [text |-> ui.text, cards |-> ui.cards])
  BY <1>1
<1>3. ChatTypes'
  BY <1>1, <1>2, EffectValues DEF ChatInv, ChatTypes
<1>4. TurnInv'
  BY <1>1 DEF ChatInv, TurnInv, UnderWay
<1>5. KeptInv'
  BY <1>1, <1>2, EffectValues DEF ChatInv, KeptInv, UnderWay
<1>. QED BY <1>3, <1>4, <1>5 DEF ChatInv

LEMMA RenderKept == ASSUME ChatInv, Chat!Render PROVE ChatInv'
<1>1. /\ UNCHANGED <<request, server, wire, ui, ref, active, saved, restoring, raced>>
      /\ shown' = ui /\ due' \subseteq {"messages", "text", "cards"}
  BY DEF Chat!Render, Chat!Changed
<1>2. ChatTypes'
  BY <1>1 DEF ChatInv, ChatTypes
<1>3. TurnInv'
  BY <1>1 DEF ChatInv, TurnInv, UnderWay
<1>4. KeptInv'
  BY <1>1 DEF ChatInv, KeptInv, UnderWay
<1>. QED BY <1>2, <1>3, <1>4 DEF ChatInv

LEMMA RestoreKept == ASSUME ChatInv, Chat!RestoreTimer PROVE ChatInv'
<1>1. /\ UNCHANGED <<request, server, wire, shown, due, ref, active, saved>>
      /\ ui' = [ui EXCEPT !.messages = restoring] /\ restoring' = <<>>
      /\ raced' = (raced \/ ui.messages # <<>>)
  BY DEF Chat!RestoreTimer
<1>2. raced' \in BOOLEAN /\ (~raced' => ~raced /\ ui.messages = <<>>)
  BY <1>1
<1>3. /\ ui' \in Page /\ ui'.text = ui.text /\ ui'.cards = ui.cards
      /\ ui'.streaming = ui.streaming /\ ui'.messages = restoring
  BY <1>1 DEF ChatInv, ChatTypes, Page
<1>4. ChatTypes'
  BY <1>1, <1>2, <1>3, EmptyInPlace DEF ChatInv, ChatTypes
<1>5. TurnInv'
  <2>1. \A r \in Chat!Requests :
          request'[r] = "open" => Conversation(r, ui', wire'[r], server'[r])
    BY <1>1, <1>3, SameConversation DEF ChatInv, TurnInv
  <2>. QED BY <1>1, <1>3, <2>1 DEF ChatInv, TurnInv, UnderWay
<1>6. KeptInv'
  BY <1>1, <1>2, <1>3, EmptyInPlace DEF ChatInv, KeptInv, UnderWay
<1>. QED BY <1>4, <1>5, <1>6 DEF ChatInv

LEMMA SendKept ==
  ASSUME ChatInv, NEW r \in Chat!Requests, Chat!Send(r)
  PROVE  ChatInv'
<1> DEFINE m == Append(ui.messages, Question(r))
<1>1. /\ request[r] = "unused" /\ ~shown.streaming
      /\ ui' = [messages |-> m, streaming |-> TRUE, text |-> <<>>, cards |-> FALSE]
      /\ shown' = ui' /\ due' = {} /\ ref' = Chat!NoStream /\ active' = r
      /\ saved' = Chat!Latest(ui'.messages)
      /\ request' = [request EXCEPT ![r] = "sent"]
      /\ UNCHANGED <<server, wire, restoring, raced>>
  BY DEF Chat!Send, Question
<1>2. /\ m \in Seq(Message) /\ m # <<>> /\ m[Len(m)] = Question(r)
      /\ InPlace(ui.messages) => InPlace(m)
  BY QuestionInPlace DEF ChatInv, ChatTypes, Page
<1> HIDE DEF m
<1>3. /\ ui' \in Page /\ ui'.messages = m /\ ui'.text = <<>> /\ ui'.cards = FALSE
      /\ ui'.streaming
  BY <1>1, <1>2, EmptySeq DEF Page
<1>4. saved' \in Seq(Message) /\ (InPlace(m) => InPlace(saved'))
  BY <1>1, <1>2, <1>3, LatestInPlace
<1>5. \A q \in Chat!Requests : ~UnderWay(q)
  BY <1>1 DEF ChatInv, TurnInv
<1>6. request \in [Chat!Requests -> {"unused", "sent", "resent", "open", "closed"}]
  BY DEF ChatInv, ChatTypes
<1>7. \A q \in Chat!Requests : /\ q # r => ~UnderWay(q)' /\ request'[q] = request[q]
                               /\ request'[q] # "open"
  BY <1>1, <1>5, <1>6 DEF UnderWay
<1>8. ChatTypes'
  <2>1. Chat!NoStream \in [text : Seq(Piece), cards : BOOLEAN]
    BY EmptySeq DEF Chat!NoStream
  <2>. QED BY <1>1, <1>3, <1>4, <2>1 DEF ChatInv, ChatTypes
<1>9. TurnInv'
  BY <1>1, <1>3, <1>7 DEF ChatInv, TurnInv
<1>10. KeptInv'
  <2>1. ref' = [text |-> ui'.text, cards |-> ui'.cards]
    BY <1>1, <1>3 DEF Chat!NoStream
  <2>2. \A q \in Chat!Requests : UnderWay(q)' => ui'.messages # <<>>
                                    /\ ui'.messages[Len(ui'.messages)] = Question(q)
    BY <1>2, <1>3, <1>7
  <2>. QED BY <1>1, <1>2, <1>3, <1>4, <2>1, <2>2 DEF ChatInv, KeptInv
<1>. QED BY <1>8, <1>9, <1>10 DEF ChatInv

LEMMA RefreshKept ==
  ASSUME ChatInv, NEW r \in Chat!Requests, Chat!Refresh(r)
  PROVE  ChatInv'
<1>1. /\ request[r] = "sent" /\ request' = [request EXCEPT ![r] = "resent"]
      /\ UNCHANGED <<server, wire, ui, shown, due, ref, active, saved, restoring, raced>>
  BY DEF Chat!Refresh, Chat!browser
<1>2. request \in [Chat!Requests -> {"unused", "sent", "resent", "open", "closed"}]
  BY DEF ChatInv, ChatTypes
<1>3. ChatTypes'
  BY <1>1 DEF ChatInv, ChatTypes
<1>4. \A q \in Chat!Requests : /\ UnderWay(q)' <=> UnderWay(q)
                               /\ request'[q] = "open" <=> request[q] = "open"
                               /\ request'[q] \in {"unused", "sent", "resent"}
                                    <=> request[q] \in {"unused", "sent", "resent"}
  BY <1>1, <1>2 DEF UnderWay
<1>5. TurnInv'
  BY <1>1, <1>4 DEF ChatInv, TurnInv
<1>6. KeptInv'
  BY <1>1, <1>4 DEF ChatInv, KeptInv
<1>. QED BY <1>3, <1>5, <1>6 DEF ChatInv

LEMMA AcceptKept ==
  ASSUME ChatInv, NEW r \in Chat!Requests, Chat!Accept(r)
  PROVE  ChatInv'
<1> DEFINE s == [server[r] EXCEPT !.at = "prepare"]
<1>1. /\ request[r] \in {"sent", "resent"} /\ request' = [request EXCEPT ![r] = "open"]
      /\ server' = [server EXCEPT ![r] = s]
      /\ UNCHANGED <<wire, ui, shown, due, ref, active, saved, restoring, raced>>
  BY DEF Chat!Accept, Chat!browser, ChatInv, ChatTypes
<1>2. /\ request \in [Chat!Requests -> {"unused", "sent", "resent", "open", "closed"}]
      /\ server \in [Chat!Requests -> ServerStates]
  BY DEF ChatInv, ChatTypes, ServerStates
<1>3. wire[r] = <<>> /\ server[r] = Chat!Idle /\ r = active
  BY <1>1 DEF ChatInv, TurnInv, UnderWay
<1>4. s \in ServerStates /\ s.at = "prepare" /\ s.attempt = 1 /\ s.sent = 0
  BY <1>3 DEF ServerStates, Chat!Idle
<1> HIDE DEF s
<1>5. \A q \in Chat!Requests : q # r => ~UnderWay(q)
  BY <1>3 DEF ChatInv, TurnInv
<1>6. ui.text = <<>> /\ ~ui.cards
  BY <1>1, <1>5 DEF ChatInv, TurnInv, UnderWay
<1>7. Conversation(r, ui, <<>>, s)
  <2>1. 1 \in Attempts /\ Chat!Whole(r, 1, 0) = <<>> /\ Len(<<>>) = 0
    <3>1. 1 \in Attempts
      BY ChatAssumption DEF Attempts
    <3>2. 1 \in Nat /\ 0 \in Nat
      OBVIOUS
    <3>3. Chat!Whole(r, 1, 0) = <<>>
      BY <3>2, Wholes
    <3>. QED BY <3>1, <3>3, EmptySeq
  <2>2. Upto(r, ui, <<>>, 1, 1, 0)
    BY <1>6, <2>1 DEF Upto
  <2>. QED BY <1>4, <1>6, <2>1, <2>2 DEF Conversation, WireFits, Generating
<1>8. ChatTypes'
  BY <1>1, <1>4 DEF ChatInv, ChatTypes, ServerStates
<1>9. \A q \in Chat!Requests :
        /\ UnderWay(q)' <=> UnderWay(q)
        /\ q # r => request'[q] = request[q] /\ server'[q] = server[q] /\ request[q] # "open"
        /\ q = r => request'[q] = "open" /\ server'[q] = s
  BY <1>1, <1>2, <1>5 DEF UnderWay
<1>10. TurnInv'
  BY <1>1, <1>3, <1>7, <1>9 DEF ChatInv, TurnInv
<1>11. KeptInv'
  BY <1>1, <1>9 DEF ChatInv, KeptInv
<1>. QED BY <1>8, <1>10, <1>11 DEF ChatInv

\* A request ends, and what was received of its answer is kept.
LEMMA EndKept ==
  ASSUME ChatInv, NEW r \in Chat!Requests, UnderWay(r),
         NEW incomplete \in BOOLEAN, NEW whole \in BOOLEAN, Chat!End(r, incomplete, whole),
         ~raced => incomplete \/ whole,
         server' \in [Chat!Requests -> ServerStates], wire' \in [Chat!Requests -> Seq(Events)],
         \A q \in Chat!Requests : q # r => server'[q] = server[q] /\ wire'[q] = wire[q],
         UNCHANGED <<shown, due, active, saved, restoring, raced>>
  PROVE  ChatInv'
<1> DEFINE answer == [from |-> "assistant", request |-> r,
                      incomplete |-> incomplete, whole |-> whole]
           m == IF ref = Chat!NoStream THEN ui.messages ELSE Append(ui.messages, answer)
<1>1. /\ ui' = [Chat!Blank EXCEPT !.messages = m]
      /\ ref' = Chat!NoStream /\ request' = [request EXCEPT ![r] = "closed"]
  BY DEF Chat!End
<1>2. m \in Seq(Message) /\ (~raced => InPlace(m))
  <2>1. answer \in Message /\ answer.from = "assistant" /\ answer.request = r
        /\ answer.incomplete = incomplete /\ answer.whole = whole
    BY DEF Message
  <2>2. ui.messages \in Seq(Message)
    BY DEF ChatInv, ChatTypes, Page
  <2> HIDE DEF answer
  <2>3. /\ Append(ui.messages, answer) \in Seq(Message)
        /\ InPlace(ui.messages) /\ ui.messages # <<>>
             /\ ui.messages[Len(ui.messages)] = Question(r)
             /\ (answer.incomplete \/ answer.whole) => InPlace(Append(ui.messages, answer))
    BY <2>1, <2>2, AnswerInPlace
  <2>4. ~raced => /\ InPlace(ui.messages) /\ ui.messages # <<>>
                  /\ ui.messages[Len(ui.messages)] = Question(r)
    BY DEF ChatInv, KeptInv
  <2>5. ~raced => answer.incomplete \/ answer.whole
    BY <2>1
  <2>. QED BY <2>2, <2>3, <2>4, <2>5
<1> HIDE DEF m
<1>3. ui' = [messages |-> m, streaming |-> FALSE, text |-> <<>>, cards |-> FALSE]
  BY <1>1 DEF Chat!Blank
<1>4. /\ ui' \in Page /\ ui'.messages = m /\ ui'.text = <<>> /\ ui'.cards = FALSE
  BY <1>2, <1>3, EmptySeq DEF Page
<1>5. request \in [Chat!Requests -> {"unused", "sent", "resent", "open", "closed"}]
  BY DEF ChatInv, ChatTypes
<1>6. \A q \in Chat!Requests : /\ q # r => request'[q] = request[q] /\ ~UnderWay(q)
                               /\ q = r => request'[q] = "closed"
  BY <1>1, <1>5 DEF ChatInv, TurnInv
<1>7. \A q \in Chat!Requests : ~UnderWay(q)' /\ request'[q] # "open"
  BY <1>6 DEF UnderWay
<1>8. ChatTypes'
  <2>1. Chat!NoStream \in [text : Seq(Piece), cards : BOOLEAN]
    BY EmptySeq DEF Chat!NoStream
  <2>. QED BY <1>1, <1>4, <2>1 DEF ChatInv, ChatTypes, ServerStates
<1>9. TurnInv'
  <2>1. \A q \in Chat!Requests : request'[q] \in {"unused", "sent", "resent"}
                                    => wire'[q] = <<>> /\ server'[q] = Chat!Idle
    BY <1>6 DEF ChatInv, TurnInv
  <2>. QED BY <1>4, <1>7, <2>1 DEF TurnInv
<1>10. KeptInv'
  <2>1. ref' = [text |-> ui'.text, cards |-> ui'.cards]
    BY <1>1, <1>4 DEF Chat!NoStream
  <2>. QED BY <1>2, <1>4, <1>7, <2>1 DEF ChatInv, KeptInv
<1>. QED BY <1>8, <1>9, <1>10 DEF ChatInv

LEMMA FailKept ==
  ASSUME ChatInv, NEW r \in Chat!Requests, Chat!Fail(r)
  PROVE  ChatInv'
<1>1. /\ UnderWay(r) /\ Chat!End(r, TRUE, FALSE)
      /\ wire' = [wire EXCEPT ![r] = <<>>]
      /\ server' = [server EXCEPT ![r] = [Chat!Idle EXCEPT !.at = "over"]]
      /\ UNCHANGED <<shown, due, active, saved, restoring, raced>>
  BY DEF Chat!Fail, Chat!Over, UnderWay
<1>2. [Chat!Idle EXCEPT !.at = "over"] \in ServerStates /\ <<>> \in Seq(Events)
  BY EmptySeq DEF Chat!Idle, ServerStates
<1>3. server \in [Chat!Requests -> ServerStates] /\ wire \in [Chat!Requests -> Seq(Events)]
  BY DEF ChatInv, ChatTypes, ServerStates
<1>4. /\ server' \in [Chat!Requests -> ServerStates] /\ wire' \in [Chat!Requests -> Seq(Events)]
      /\ \A q \in Chat!Requests : q # r => server'[q] = server[q] /\ wire'[q] = wire[q]
  BY <1>1, <1>2, <1>3
<1>. QED BY <1>1, <1>4, EndKept

LEMMA ReceiveKept ==
  ASSUME ChatInv, NEW r \in Chat!Requests, Chat!Receive(r)
  PROVE  ChatInv'
<1> DEFINE w == wire[r]
           e == Head(w)
<1>1. /\ request[r] = "open" /\ w # <<>> /\ active = r
      /\ wire' = [wire EXCEPT ![r] = Tail(w)]
      /\ UNCHANGED <<server, shown, due, active, saved, restoring, raced>>
  BY DEF Chat!Receive, ChatInv, ChatTypes
<1>2. /\ w \in Seq(Events) /\ Tail(w) \in Seq(Events) /\ e \in Events
      /\ wire \in [Chat!Requests -> Seq(Events)] /\ server \in [Chat!Requests -> ServerStates]
  BY <1>1, HeadTailProperties DEF ChatInv, ChatTypes, ServerStates
<1>3. UnderWay(r) /\ Conversation(r, ui, w, server[r])
  BY <1>1 DEF UnderWay, ChatInv, TurnInv
<1>4. /\ wire' \in [Chat!Requests -> Seq(Events)] /\ wire'[r] = Tail(w)
      /\ server' \in [Chat!Requests -> ServerStates]
      /\ \A q \in Chat!Requests : q # r => server'[q] = server[q] /\ wire'[q] = wire[q]
  BY <1>1, <1>2
<1>5. /\ ui \in Page /\ ref \in [text : Seq(Piece), cards : BOOLEAN]
  BY DEF ChatInv, ChatTypes
\* An event that goes on with the answer.
<1>6. ASSUME Applied(e, ui, ui'), ui' \in Page, ui'.messages = ui.messages,
             ui'.streaming = ui.streaming,
             ref' \in [text : Seq(Piece), cards : BOOLEAN], UNCHANGED request,
             ref = [text |-> ui.text, cards |-> ui.cards]
               => ref' = [text |-> ui'.text, cards |-> ui'.cards]
      PROVE  ChatInv'
  <2>1. Conversation(r, ui', Tail(w), server[r])
    BY <1>1, <1>2, <1>3, <1>6, Told
  <2>2. ChatTypes'
    BY <1>1, <1>4, <1>6 DEF ChatInv, ChatTypes
  <2>3. \A q \in Chat!Requests : q # r => ~UnderWay(q)
    BY <1>1 DEF ChatInv, TurnInv
  <2>4. TurnInv'
    <3>1. \A q \in Chat!Requests : request'[q] = "open" =>
             Conversation(q, ui', wire'[q], server'[q])
      BY <1>1, <1>4, <1>6, <2>1, <2>3 DEF UnderWay
    <3>2. \A q \in Chat!Requests : request'[q] \in {"unused", "sent", "resent"}
             => q # r /\ wire'[q] = <<>> /\ server'[q] = Chat!Idle
      BY <1>1, <1>4, <1>6 DEF ChatInv, TurnInv
    <3>3. \A q \in Chat!Requests : UnderWay(q)' => q = active' /\ ui'.streaming /\ shown'.streaming
      BY <1>1, <1>6 DEF ChatInv, TurnInv, UnderWay
    <3>4. request'[r] = "open"
      BY <1>1, <1>6
    <3>. QED BY <3>1, <3>2, <3>3, <3>4 DEF TurnInv
  <2>5. KeptInv'
    BY <1>1, <1>6 DEF ChatInv, KeptInv, UnderWay
  <2>. QED BY <2>2, <2>4, <2>5 DEF ChatInv
<1>7. CASE e.kind = "text" /\ ref' = [ref EXCEPT !.text = Append(ref.text, e.payload)]
           /\ ui' = [ui EXCEPT !.text = Append(ui.text, e.payload)] /\ UNCHANGED request
  <2>1. e.payload \in Piece
    <3>1. PICK q \in Chat!Requests, a \in Nat, n \in Nat : e = TextEvent(q, a, n)
      <4>1. \A kind \in {"reset", "cards", "error"} : e # Chat!Event(kind)
        BY <1>7, EventKinds
      <4>2. \A q, a, n, cards : e # Chat!Done(q, a, n, cards)
        BY <1>7 DEF Chat!Done
      <4>. QED BY <1>2, <4>1, <4>2 DEF Events
    <3>2. e.payload = <<q, a, n>>
      BY <3>1, EventKinds
    <3>3. <<q, a, n>> \in Piece
      BY DEF Piece
    <3>. QED BY <3>2, <3>3
  <2> HIDE DEF e
  <2>2. /\ Append(ui.text, e.payload) \in Seq(Piece) /\ Append(ref.text, e.payload) \in Seq(Piece)
    BY <1>5, <2>1 DEF Page
  <2>3. /\ ui' \in Page /\ ui'.text = Append(ui.text, e.payload) /\ ui'.cards = ui.cards
        /\ ui'.messages = ui.messages /\ ui'.streaming = ui.streaming
    BY <1>5, <1>7, <2>2 DEF Page
  <2>4. /\ ref' \in [text : Seq(Piece), cards : BOOLEAN]
        /\ ref = [text |-> ui.text, cards |-> ui.cards]
             => ref' = [text |-> ui'.text, cards |-> ui'.cards]
    <3>1. ref' = [text |-> Append(ref.text, e.payload), cards |-> ref.cards]
      BY <1>5, <1>7
    <3>2. ref.cards \in BOOLEAN
      BY <1>5
    <3>3. ASSUME ref = [text |-> ui.text, cards |-> ui.cards]
          PROVE  ref' = [text |-> ui'.text, cards |-> ui'.cards]
      <4>1. ref.text = ui.text /\ ref.cards = ui.cards
        BY <3>3
      <4>. QED BY <2>3, <3>1, <4>1
    <3>. QED BY <2>2, <3>1, <3>2, <3>3
  <2>. QED BY <1>6, <1>7, <2>3, <2>4 DEF Applied
<1>8. CASE e.kind = "reset" /\ ref' = Chat!NoStream
           /\ ui' = [ui EXCEPT !.text = <<>>, !.cards = FALSE] /\ UNCHANGED request
  <2>1. /\ ui' \in Page /\ ui'.text = <<>> /\ ui'.cards = FALSE
        /\ ui'.messages = ui.messages /\ ui'.streaming = ui.streaming
    BY <1>5, <1>8, EmptySeq DEF Page
  <2>2. /\ ref' \in [text : Seq(Piece), cards : BOOLEAN]
        /\ ref' = [text |-> ui'.text, cards |-> ui'.cards]
    BY <1>8, <2>1, EmptySeq DEF Chat!NoStream
  <2>. QED BY <1>6, <1>8, <2>1, <2>2 DEF Applied
<1>9. CASE e.kind = "cards" /\ ref' = [ref EXCEPT !.cards = TRUE]
           /\ ui' = [ui EXCEPT !.cards = TRUE] /\ UNCHANGED request
  <2>1. /\ ui' \in Page /\ ui'.text = ui.text /\ ui'.cards = TRUE
        /\ ui'.messages = ui.messages /\ ui'.streaming = ui.streaming
    BY <1>5, <1>9 DEF Page
  <2>2. /\ ref' \in [text : Seq(Piece), cards : BOOLEAN]
        /\ ref = [text |-> ui.text, cards |-> ui.cards]
             => ref' = [text |-> ui'.text, cards |-> ui'.cards]
    <3>1. ref' = [text |-> ref.text, cards |-> TRUE] /\ ref.text \in Seq(Piece)
      BY <1>5, <1>9
    <3>2. ASSUME ref = [text |-> ui.text, cards |-> ui.cards]
          PROVE  ref' = [text |-> ui'.text, cards |-> ui'.cards]
      <4>1. ref.text = ui.text
        BY <3>2
      <4>. QED BY <2>1, <3>1, <4>1
    <3>. QED BY <3>1, <3>2
  <2>. QED BY <1>6, <1>9, <2>1, <2>2 DEF Applied
<1>10. CASE e.kind = "done" /\ Chat!End(r, FALSE, ref = e.payload)
  <2>1. e.payload = [text |-> ui.text, cards |-> ui.cards]
    <3>1. ui.cards \in BOOLEAN /\ Head(w).kind = "done"
      BY <1>5, <1>10 DEF Page
    <3> HIDE DEF w
    <3>. QED BY <1>1, <1>2, <1>3, <3>1, Ended
  <2>2. ~raced => ref = e.payload
    BY <2>1 DEF ChatInv, KeptInv
  <2> DEFINE whole == (ref = e.payload)
  <2>3. whole \in BOOLEAN /\ (~raced => whole)
    BY <2>2
  <2>4. Chat!End(r, FALSE, whole)
    BY <1>10
  <2> HIDE DEF whole
  <2>. QED BY <1>1, <1>3, <1>4, <2>3, <2>4, EndKept
<1>11. CASE e.kind = "error" /\ Chat!End(r, TRUE, FALSE)
  BY <1>1, <1>3, <1>4, <1>11, EndKept
<1>. QED BY <1>7, <1>8, <1>9, <1>10, <1>11 DEF Chat!Receive

\* The user starts over or leaves: nothing is under way.
LEMMA AbortKept ==
  ASSUME ChatInv, Chat!AbortActive, ui' = Chat!Blank, shown' = Chat!Blank, due' = {},
         ref' = Chat!NoStream, saved' \in Seq(Message), restoring' \in Seq(Message),
         raced' \in BOOLEAN, ~raced' => InPlace(saved') /\ InPlace(restoring')
  PROVE  ChatInv'
<1>1. /\ active' = 0
      /\ request' = [r \in Chat!Requests |-> IF request[r] \in {"sent", "resent", "open"}
                                                THEN "closed" ELSE request[r]]
      /\ server' = [r \in Chat!Requests |-> IF request[r] = "open"
                                              THEN [Chat!Idle EXCEPT !.at = "over"] ELSE server[r]]
      /\ wire' = [r \in Chat!Requests |-> <<>>]
  BY DEF Chat!AbortActive
<1>2. Chat!Blank \in Page /\ Chat!NoStream \in [text : Seq(Piece), cards : BOOLEAN]
      /\ [Chat!Idle EXCEPT !.at = "over"] \in ServerStates /\ <<>> \in Seq(Events)
  BY EmptySeq DEF Chat!Blank, Chat!NoStream, Page, Chat!Idle, ServerStates
<1>3. /\ request' \in [Chat!Requests -> {"unused", "sent", "resent", "open", "closed"}]
      /\ server' \in [Chat!Requests -> ServerStates] /\ wire' \in [Chat!Requests -> Seq(Events)]
  BY <1>1, <1>2 DEF ChatInv, ChatTypes, ServerStates
<1>4. ChatTypes'
  BY <1>1, <1>2, <1>3 DEF ChatTypes, ServerStates
<1>5. \A r \in Chat!Requests : ~UnderWay(r)' /\ request'[r] # "open"
  BY <1>1 DEF UnderWay
<1>6. \A r \in Chat!Requests : request'[r] \in {"unused", "sent", "resent"}
        => wire'[r] = <<>> /\ server'[r] = Chat!Idle
  BY <1>1 DEF ChatInv, TurnInv
<1>7. ui'.text = <<>> /\ ui'.cards = FALSE /\ ui'.messages = <<>> /\ shown'.messages = <<>>
  BY DEF Chat!Blank
<1>8. TurnInv'
  BY <1>5, <1>6, <1>7 DEF TurnInv
<1>9. KeptInv'
  BY <1>5, <1>7, EmptyInPlace DEF KeptInv, Chat!NoStream
<1>. QED BY <1>4, <1>8, <1>9 DEF ChatInv

LEMMA NewChatKept == ASSUME ChatInv, Chat!NewChat PROVE ChatInv'
<1>1. saved' \in {<<>>, Chat!SavedAfter} /\ restoring' = restoring
      /\ raced' = (raced \/ "messages" \in due)
  BY DEF Chat!NewChat
<1>2. raced' \in BOOLEAN /\ (~raced' => ~raced)
  BY <1>1
<1>3. restoring \in Seq(Message) /\ (~raced => InPlace(restoring))
  BY DEF ChatInv, ChatTypes, KeptInv
<1>. QED BY <1>1, <1>2, <1>3, EffectValues, EmptyInPlace, AbortKept DEF Chat!NewChat

LEMMA ReloadKept == ASSUME ChatInv, Chat!Reload PROVE ChatInv'
<1>1. saved' \in {saved, Chat!SavedAfter} /\ restoring' = saved' /\ raced' = raced
  BY DEF Chat!Reload
<1>2. saved \in Seq(Message) /\ raced \in BOOLEAN /\ (~raced => InPlace(saved))
  BY DEF ChatInv, ChatTypes, KeptInv
<1>. QED BY <1>1, <1>2, EffectValues, AbortKept DEF Chat!Reload

LEMMA ChatGoesOn == ChatInv /\ [Chat!Next]_chat => ChatInv'
<1> SUFFICES ASSUME ChatInv, [Chat!Next]_chat PROVE ChatInv'
  OBVIOUS
<1>1. ASSUME NEW r \in Chat!Requests,
             \/ Chat!Send(r) \/ Chat!Refresh(r) \/ Chat!Accept(r) \/ Chat!Fail(r)
             \/ Chat!Serve(r) \/ Chat!Receive(r)
      PROVE  ChatInv'
  BY <1>1, SendKept, RefreshKept, AcceptKept, FailKept, ServeKept, ReceiveKept
<1>2. CASE Chat!Effects \/ Chat!Render \/ Chat!RestoreTimer \/ Chat!NewChat \/ Chat!Reload
  BY <1>2, EffectsKept, RenderKept, RestoreKept, NewChatKept, ReloadKept
<1>3. CASE UNCHANGED chat
  BY <1>3 DEF chat, ChatInv, ChatTypes, TurnInv, KeptInv, UnderWay
<1>. QED BY <1>1, <1>2, <1>3 DEF Chat!Next

LEMMA ChatMeans == ChatInv => Chat!OneAttemptShown /\ Chat!AnswersInPlace
<1> SUFFICES ASSUME ChatInv PROVE Chat!OneAttemptShown /\ Chat!AnswersInPlace
  OBVIOUS
<1>1. ASSUME ui.text # <<>>
      PROVE  \E a \in 1 .. MaxAttempts : ui.text = Chat!Whole(active, a, Len(ui.text))
  <2>1. PICK r \in Chat!Requests : request[r] = "open"
    BY <1>1 DEF ChatInv, TurnInv
  <2>2. r = active /\ Conversation(r, ui, wire[r], server[r])
    BY <2>1 DEF ChatInv, TurnInv, UnderWay
  <2>3. PICK a \in Attempts, n \in Nat : ui.text = Chat!Whole(active, a, n)
    BY <2>2 DEF Conversation
  <2>4. Len(ui.text) = n
    BY <2>2, <2>3, ChatAssumption, Wholes DEF Attempts
  <2>. QED BY <2>3, <2>4 DEF Attempts
<1>2. Chat!AnswersInPlace
  BY DEF ChatInv, KeptInv, InPlace, Question, Chat!AnswersInPlace
<1>. QED BY <1>1, <1>2 DEF Chat!OneAttemptShown

\* No answer is tried too often or has too many pieces, and no more messages are stored
\* than the browser keeps.
ChatBounds ==
    /\ \A r \in Chat!Requests : server[r].attempt \in Attempts /\ server[r].sent \in 0 .. Pieces
    /\ Len(saved) <= MaxStored

LEMMA LatestIsShort ==
  ASSUME NEW messages \in Seq(Message)
  PROVE  Len(Chat!Latest(messages)) <= MaxStored
<1>1. MaxStored \in Nat \ {0} /\ Len(messages) \in Nat
  BY ChatAssumption, LenProperties
<1>2. CASE Len(messages) > MaxStored
  <2> DEFINE k == Len(messages) - MaxStored + 1
  <2>1. k \in 1 .. Len(messages) /\ Len(messages) - k + 1 = MaxStored
    BY <1>1, <1>2
  <2>2. \A i \in k .. Len(messages) : messages[i] \in Message
    BY <1>1, <2>1, ElementOfSeq
  <2> HIDE DEF k
  <2>3. Len(SubSeq(messages, k, Len(messages))) = MaxStored
    BY <1>1, <2>1, <2>2, SubSeqProperties
  <2>. QED BY <1>1, <1>2, <2>3 DEF Chat!Latest, k
<1>3. CASE ~(Len(messages) > MaxStored)
  BY <1>1, <1>3 DEF Chat!Latest
<1>. QED BY <1>2, <1>3

LEMMA SavedIsShort ==
  ASSUME ChatInv, ChatBounds
  PROVE  Len(Chat!SavedAfter) <= MaxStored
BY LatestIsShort DEF Chat!SavedAfter, ChatInv, ChatTypes, ChatBounds, Page

LEMMA BoundsBegin == Chat!Init => ChatBounds
BY ChatAssumption, EmptySeq DEF Chat!Init, ChatBounds, Chat!Idle, Attempts

LEMMA ServeWithinBounds ==
  ASSUME ChatInv, ChatBounds, NEW r \in Chat!Requests,
         Chat!Serve(r) \/ Chat!Refresh(r) \/ Chat!Accept(r) \/ Chat!Fail(r) \/ Chat!Receive(r)
  PROVE  ChatBounds'
<1> DEFINE Bounded(s) == s.attempt \in Attempts /\ s.sent \in 0 .. Pieces
<1>1. saved' = saved /\ server \in [Chat!Requests -> ServerStates]
  BY DEF Chat!Serve, Chat!Prepare, Chat!Delta, Chat!Finish, Chat!Invalid, Chat!Broken,
     Chat!browser, Chat!Refresh, Chat!Accept, Chat!Fail, Chat!Receive, ChatInv, ChatTypes,
     ServerStates
<1>2. MaxAttempts \in Nat /\ Pieces \in Nat /\ 1 \in Attempts /\ 0 \in 0 .. Pieces
  BY ChatAssumption DEF Attempts
<1>3. ASSUME NEW s \in ServerStates, Bounded(s), server' = [server EXCEPT ![r] = s]
      PROVE  ChatBounds'
  BY <1>1, <1>3 DEF ChatBounds
<1>4. CASE server' = server
  BY <1>1, <1>4 DEF ChatBounds
<1>5. CASE Chat!Over(r)
  <2> DEFINE over == [Chat!Idle EXCEPT !.at = "over"]
  <2>1. over \in ServerStates /\ Bounded(over)
    BY <1>2 DEF Chat!Idle, ServerStates
  <2>. QED BY <1>3, <1>5, <2>1 DEF Chat!Over
<1>6. ASSUME NEW at \in {"prepare", "stream"}, server' = [server EXCEPT ![r].at = at]
      PROVE  ChatBounds'
  <2> DEFINE s == [server[r] EXCEPT !.at = at]
  <2>1. s \in ServerStates /\ Bounded(s)
    BY <1>1 DEF ServerStates, ChatBounds
  <2>. QED BY <1>3, <1>6, <2>1
<1>7. CASE Chat!Delta(r)
  <2> DEFINE s == [server[r] EXCEPT !.sent = @ + 1]
  <2>1. server[r].sent \in 0 .. Pieces /\ server[r].sent < Pieces
    BY <1>7 DEF Chat!Delta, ChatBounds
  <2>2. server[r].sent + 1 \in 0 .. Pieces /\ server[r].sent + 1 \in Nat
    BY <1>2, <2>1
  <2>3. s \in ServerStates /\ Bounded(s)
    BY <1>1, <2>2 DEF ServerStates, ChatBounds
  <2>4. server' = [server EXCEPT ![r] = s]
    BY <1>7 DEF Chat!Delta
  <2>. QED BY <1>3, <2>3, <2>4
<1>8. CASE Chat!Invalid(r) /\ server[r].attempt < MaxAttempts
  <2> DEFINE s == [server[r] EXCEPT !.attempt = @ + 1, !.sent = 0]
  <2>1. server[r].attempt \in 1 .. MaxAttempts
    BY DEF ChatBounds, Attempts
  <2>2. server[r].attempt + 1 \in Attempts /\ server[r].attempt + 1 \in Nat
    BY <1>2, <1>8, <2>1 DEF Attempts
  <2>3. s \in ServerStates /\ s.attempt = server[r].attempt + 1 /\ s.sent = 0
    BY <1>1, <2>2 DEF ServerStates
  <2>4. server' = [server EXCEPT ![r] = s]
    BY <1>1, <1>8 DEF Chat!Invalid
  <2> HIDE DEF s
  <2>. QED BY <1>2, <1>3, <2>2, <2>3, <2>4
<1>. QED BY <1>4, <1>5, <1>6, <1>7, <1>8
     DEF Chat!Serve, Chat!Prepare, Chat!Finish, Chat!Invalid, Chat!Broken, Chat!Refresh,
     Chat!Accept, Chat!Fail, Chat!Receive

LEMMA BoundsGoOn == ChatInv /\ ChatBounds /\ [Chat!Next]_chat => ChatBounds'
<1> SUFFICES ASSUME ChatInv, ChatBounds, [Chat!Next]_chat PROVE ChatBounds'
  OBVIOUS
<1>1. ASSUME NEW r \in Chat!Requests, Chat!Send(r) PROVE ChatBounds'
  <2>1. ui.messages \in Seq(Message) /\ Question(r) \in Message
    BY DEF ChatInv, ChatTypes, Page, Question, Message
  <2>2. Append(ui.messages, Question(r)) \in Seq(Message)
    BY <2>1
  <2>3. saved' = Chat!Latest(Append(ui.messages, Question(r))) /\ server' = server
    BY <1>1 DEF Chat!Send, Question
  <2>. QED BY <2>2, <2>3, LatestIsShort DEF ChatBounds
<1>2. CASE Chat!Effects \/ Chat!Render \/ Chat!RestoreTimer
  BY <1>2, SavedIsShort DEF Chat!Effects, Chat!Render, Chat!RestoreTimer, ChatBounds
<1>3. CASE Chat!NewChat \/ Chat!Reload
  <2>1. saved' \in {saved, Chat!SavedAfter, <<>>}
    BY <1>3 DEF Chat!NewChat, Chat!Reload
  <2>2. Len(saved') <= MaxStored
    BY <2>1, SavedIsShort, EmptySeq, ChatAssumption DEF ChatBounds
  <2>3. \A r \in Chat!Requests :
          server'[r] \in {server[r], [Chat!Idle EXCEPT !.at = "over"]}
    BY <1>3 DEF Chat!NewChat, Chat!Reload, Chat!AbortActive
  <2>. QED BY <2>2, <2>3, ChatAssumption DEF ChatBounds, Chat!Idle, Attempts
<1>4. CASE UNCHANGED chat
  BY <1>4 DEF chat, ChatBounds
<1>5. ASSUME NEW r \in Chat!Requests,
             Chat!Serve(r) \/ Chat!Refresh(r) \/ Chat!Accept(r) \/ Chat!Fail(r) \/ Chat!Receive(r)
      PROVE  ChatBounds'
  BY <1>5, ServeWithinBounds
<1>. QED BY <1>1, <1>2, <1>3, <1>4, <1>5 DEF Chat!Next

LEMMA ChatTyped == ChatInv /\ ChatBounds => Chat!TypeOK
BY DEF ChatInv, ChatTypes, TurnInv, UnderWay, ChatBounds, Attempts, Chat!TypeOK

-----------------------------------------------------------------------------
(* The session of some tabs: the lemmas of BrowserSessionProofs hold of    *)
(* each of its instances.                                                  *)

EditingP == INSTANCE BrowserSessionProofs WITH
    Logins <- OneLogin, Editors <- Tabs, NetworkFails <- FALSE, HasLocks <- TRUE

SignInsP == INSTANCE BrowserSessionProofs WITH
    Editors <- {}, NetworkFails <- FALSE, MaxLoads <- 0, HasLocks <- TRUE

OfflineP == INSTANCE BrowserSessionProofs WITH
    Tabs <- OneTab, Logins <- OneLogin, Editors <- OneTab, NetworkFails <- TRUE,
    HasLocks <- TRUE

\* The definitions of the two instances are the same.
LEMMA EditingSame ==
  /\ Editing!Init <=> EditingP!Init
  /\ Editing!Next <=> EditingP!Next
  /\ Editing!RefusedMeansGone <=> EditingP!RefusedMeansGone
  /\ Editing!TypeOK <=> EditingP!TypeOK
  /\ Editing!StaysOut <=> EditingP!StaysOut
<1>1. Editing!Init <=> EditingP!Init
  BY DEF
     Editing!Init, EditingP!Init, Editing!FreshTab, EditingP!FreshTab, Editing!Idle,
     EditingP!Idle, Editing!NoRefresh, EditingP!NoRefresh, Editing!NoToken,
     EditingP!NoToken, Editing!Asked, EditingP!Asked
<1>2. Editing!Next <=> EditingP!Next
  BY DEF
     Editing!Next, EditingP!Next, Editing!Answered, EditingP!Answered, Editing!SendRefresh,
     EditingP!SendRefresh, Editing!RefreshSucceeds, EditingP!RefreshSucceeds,
     Editing!RefreshFails, EditingP!RefreshFails, Editing!RestoreAnswered,
     EditingP!RestoreAnswered, Editing!EstablishedAnswered, EditingP!EstablishedAnswered,
     Editing!CallbackAnswered, EditingP!CallbackAnswered, Editing!SendLogout,
     EditingP!SendLogout, Editing!LogoutAnswered, EditingP!LogoutAnswered, Editing!Receive,
     EditingP!Receive, Editing!Reload, EditingP!Reload, Editing!Logout, EditingP!Logout,
     Editing!Edit, EditingP!Edit, Editing!EditRefused, EditingP!EditRefused,
     Editing!EditFails, EditingP!EditFails, Editing!EditSaved, EditingP!EditSaved,
     Editing!SocialLogin, EditingP!SocialLogin, Editing!AccessExpires,
     EditingP!AccessExpires, Editing!SessionEnds, EditingP!SessionEnds, Editing!NoToken,
     EditingP!NoToken, Editing!Tokens, EditingP!Tokens, Editing!Idle, EditingP!Idle,
     Editing!NoRefresh, EditingP!NoRefresh, Editing!Asked, EditingP!Asked, Editing!Reply,
     EditingP!Reply, Editing!FreshTab, EditingP!FreshTab, Editing!Stale, EditingP!Stale,
     Editing!NewContextGeneration, EditingP!NewContextGeneration,
     Editing!NewSessionGeneration, EditingP!NewSessionGeneration, Editing!SignedOutPage,
     EditingP!SignedOutPage, Editing!SignedInPage, EditingP!SignedInPage, Editing!Post,
     EditingP!Post, Editing!SameQueue, EditingP!SameQueue, Editing!Before, EditingP!Before,
     Editing!Turn, EditingP!Turn, Editing!Enqueue, EditingP!Enqueue, Editing!Dequeue,
     EditingP!Dequeue, Editing!Forget, EditingP!Forget, Editing!JoinRefresh,
     EditingP!JoinRefresh, Editing!AfterRefresh, EditingP!AfterRefresh, Editing!GiveUp,
     EditingP!GiveUp, Editing!Notifies, EditingP!Notifies, Editing!Unload, EditingP!Unload,
     Editing!Apply, EditingP!Apply
<1>3. Editing!RefusedMeansGone <=> EditingP!RefusedMeansGone
  BY DEF Editing!RefusedMeansGone, EditingP!RefusedMeansGone, Editing!NoToken, EditingP!NoToken
<1>4. Editing!StaysOut <=> EditingP!StaysOut
  BY DEF Editing!StaysOut, EditingP!StaysOut, Editing!EditSaved, EditingP!EditSaved,
     Editing!Idle, EditingP!Idle
<1>5. Editing!TypeOK <=> EditingP!TypeOK
  BY DEF Editing!TypeOK, EditingP!TypeOK, Editing!Tokens, EditingP!Tokens, Editing!NoToken,
     EditingP!NoToken, Editing!Answers, EditingP!Answers
<1>. QED BY <1>1, <1>2, <1>3, <1>4, <1>5

LEMMA EditingKept ==
  /\ Editing!Init => EditingP!SessionInv
  /\ EditingP!SessionInv /\ [Editing!Next]_session => EditingP!SessionInv' /\ Editing!StaysOut
  /\ EditingP!SessionInv => Editing!RefusedMeansGone /\ Editing!TypeOK
<1>1. EditingP!Constants
  BY SessionAssumption DEF EditingP!Constants
<1>2. EditingP!browserVars = session
  BY DEF EditingP!browserVars, session
<1>3. Editing!Init => EditingP!SessionInv
  BY <1>1, EditingSame, EditingP!SessionBegins
<1>4. EditingP!SessionInv /\ [Editing!Next]_session => EditingP!SessionInv' /\ Editing!StaysOut
  <2>1. EditingP!SessionInv /\ [EditingP!Next]_(EditingP!browserVars)
          => EditingP!SessionInv' /\ EditingP!StaysOut
    BY <1>1, EditingP!SessionGoesOn
  <2>2. [Editing!Next]_session => [EditingP!Next]_(EditingP!browserVars)
    BY <1>2, EditingSame DEF session, EditingP!browserVars
  <2>. QED BY <2>1, <2>2, EditingSame
<1>5. EditingP!SessionInv => Editing!RefusedMeansGone /\ Editing!TypeOK
  BY EditingSame, EditingP!RefusedWhenGone, EditingP!SessionTypes
<1>. QED BY <1>3, <1>4, <1>5

\* The definitions of the two instances are the same.
LEMMA SignInsSame ==
  /\ SignIns!Init <=> SignInsP!Init
  /\ SignIns!Next <=> SignInsP!Next
  /\ SignIns!RefusedMeansGone <=> SignInsP!RefusedMeansGone
  /\ SignIns!TypeOK <=> SignInsP!TypeOK
  /\ SignIns!StaysOut <=> SignInsP!StaysOut
<1>1. SignIns!Init <=> SignInsP!Init
  BY DEF
     SignIns!Init, SignInsP!Init, SignIns!FreshTab, SignInsP!FreshTab, SignIns!Idle,
     SignInsP!Idle, SignIns!NoRefresh, SignInsP!NoRefresh, SignIns!NoToken,
     SignInsP!NoToken, SignIns!Asked, SignInsP!Asked
<1>2. SignIns!Next <=> SignInsP!Next
  BY DEF
     SignIns!Next, SignInsP!Next, SignIns!Answered, SignInsP!Answered, SignIns!SendRefresh,
     SignInsP!SendRefresh, SignIns!RefreshSucceeds, SignInsP!RefreshSucceeds,
     SignIns!RefreshFails, SignInsP!RefreshFails, SignIns!RestoreAnswered,
     SignInsP!RestoreAnswered, SignIns!EstablishedAnswered, SignInsP!EstablishedAnswered,
     SignIns!CallbackAnswered, SignInsP!CallbackAnswered, SignIns!SendLogout,
     SignInsP!SendLogout, SignIns!LogoutAnswered, SignInsP!LogoutAnswered, SignIns!Receive,
     SignInsP!Receive, SignIns!Reload, SignInsP!Reload, SignIns!Logout, SignInsP!Logout,
     SignIns!Edit, SignInsP!Edit, SignIns!EditRefused, SignInsP!EditRefused,
     SignIns!EditFails, SignInsP!EditFails, SignIns!EditSaved, SignInsP!EditSaved,
     SignIns!SocialLogin, SignInsP!SocialLogin, SignIns!AccessExpires,
     SignInsP!AccessExpires, SignIns!SessionEnds, SignInsP!SessionEnds, SignIns!NoToken,
     SignInsP!NoToken, SignIns!Tokens, SignInsP!Tokens, SignIns!Idle, SignInsP!Idle,
     SignIns!NoRefresh, SignInsP!NoRefresh, SignIns!Asked, SignInsP!Asked, SignIns!Reply,
     SignInsP!Reply, SignIns!FreshTab, SignInsP!FreshTab, SignIns!Stale, SignInsP!Stale,
     SignIns!NewContextGeneration, SignInsP!NewContextGeneration,
     SignIns!NewSessionGeneration, SignInsP!NewSessionGeneration, SignIns!SignedOutPage,
     SignInsP!SignedOutPage, SignIns!SignedInPage, SignInsP!SignedInPage, SignIns!Post,
     SignInsP!Post, SignIns!SameQueue, SignInsP!SameQueue, SignIns!Before, SignInsP!Before,
     SignIns!Turn, SignInsP!Turn, SignIns!Enqueue, SignInsP!Enqueue, SignIns!Dequeue,
     SignInsP!Dequeue, SignIns!Forget, SignInsP!Forget, SignIns!JoinRefresh,
     SignInsP!JoinRefresh, SignIns!AfterRefresh, SignInsP!AfterRefresh, SignIns!GiveUp,
     SignInsP!GiveUp, SignIns!Notifies, SignInsP!Notifies, SignIns!Unload, SignInsP!Unload,
     SignIns!Apply, SignInsP!Apply
<1>3. SignIns!RefusedMeansGone <=> SignInsP!RefusedMeansGone
  BY DEF SignIns!RefusedMeansGone, SignInsP!RefusedMeansGone, SignIns!NoToken, SignInsP!NoToken
<1>4. SignIns!StaysOut <=> SignInsP!StaysOut
  BY DEF SignIns!StaysOut, SignInsP!StaysOut, SignIns!EditSaved, SignInsP!EditSaved,
     SignIns!Idle, SignInsP!Idle
<1>5. SignIns!TypeOK <=> SignInsP!TypeOK
  BY DEF SignIns!TypeOK, SignInsP!TypeOK, SignIns!Tokens, SignInsP!Tokens, SignIns!NoToken,
     SignInsP!NoToken, SignIns!Answers, SignInsP!Answers
<1>. QED BY <1>1, <1>2, <1>3, <1>4, <1>5

LEMMA SignInsKept ==
  /\ SignIns!Init => SignInsP!SessionInv
  /\ SignInsP!SessionInv /\ [SignIns!Next]_session => SignInsP!SessionInv' /\ SignIns!StaysOut
  /\ SignInsP!SessionInv => SignIns!RefusedMeansGone /\ SignIns!TypeOK
<1>1. SignInsP!Constants
  BY SessionAssumption DEF SignInsP!Constants
<1>2. SignInsP!browserVars = session
  BY DEF SignInsP!browserVars, session
<1>3. SignIns!Init => SignInsP!SessionInv
  BY <1>1, SignInsSame, SignInsP!SessionBegins
<1>4. SignInsP!SessionInv /\ [SignIns!Next]_session => SignInsP!SessionInv' /\ SignIns!StaysOut
  <2>1. SignInsP!SessionInv /\ [SignInsP!Next]_(SignInsP!browserVars)
          => SignInsP!SessionInv' /\ SignInsP!StaysOut
    BY <1>1, SignInsP!SessionGoesOn
  <2>2. [SignIns!Next]_session => [SignInsP!Next]_(SignInsP!browserVars)
    BY <1>2, SignInsSame DEF session, SignInsP!browserVars
  <2>. QED BY <2>1, <2>2, SignInsSame
<1>5. SignInsP!SessionInv => SignIns!RefusedMeansGone /\ SignIns!TypeOK
  BY SignInsSame, SignInsP!RefusedWhenGone, SignInsP!SessionTypes
<1>. QED BY <1>3, <1>4, <1>5

\* The definitions of the two instances are the same.
LEMMA OfflineSame ==
  /\ Offline!Init <=> OfflineP!Init
  /\ Offline!Next <=> OfflineP!Next
  /\ Offline!RefusedMeansGone <=> OfflineP!RefusedMeansGone
  /\ Offline!TypeOK <=> OfflineP!TypeOK
  /\ Offline!StaysOut <=> OfflineP!StaysOut
<1>1. Offline!Init <=> OfflineP!Init
  BY DEF
     Offline!Init, OfflineP!Init, Offline!FreshTab, OfflineP!FreshTab, Offline!Idle,
     OfflineP!Idle, Offline!NoRefresh, OfflineP!NoRefresh, Offline!NoToken,
     OfflineP!NoToken, Offline!Asked, OfflineP!Asked
<1>2. Offline!Next <=> OfflineP!Next
  BY DEF
     Offline!Next, OfflineP!Next, Offline!Answered, OfflineP!Answered, Offline!SendRefresh,
     OfflineP!SendRefresh, Offline!RefreshSucceeds, OfflineP!RefreshSucceeds,
     Offline!RefreshFails, OfflineP!RefreshFails, Offline!RestoreAnswered,
     OfflineP!RestoreAnswered, Offline!EstablishedAnswered, OfflineP!EstablishedAnswered,
     Offline!CallbackAnswered, OfflineP!CallbackAnswered, Offline!SendLogout,
     OfflineP!SendLogout, Offline!LogoutAnswered, OfflineP!LogoutAnswered, Offline!Receive,
     OfflineP!Receive, Offline!Reload, OfflineP!Reload, Offline!Logout, OfflineP!Logout,
     Offline!Edit, OfflineP!Edit, Offline!EditRefused, OfflineP!EditRefused,
     Offline!EditFails, OfflineP!EditFails, Offline!EditSaved, OfflineP!EditSaved,
     Offline!SocialLogin, OfflineP!SocialLogin, Offline!AccessExpires,
     OfflineP!AccessExpires, Offline!SessionEnds, OfflineP!SessionEnds, Offline!NoToken,
     OfflineP!NoToken, Offline!Tokens, OfflineP!Tokens, Offline!Idle, OfflineP!Idle,
     Offline!NoRefresh, OfflineP!NoRefresh, Offline!Asked, OfflineP!Asked, Offline!Reply,
     OfflineP!Reply, Offline!FreshTab, OfflineP!FreshTab, Offline!Stale, OfflineP!Stale,
     Offline!NewContextGeneration, OfflineP!NewContextGeneration,
     Offline!NewSessionGeneration, OfflineP!NewSessionGeneration, Offline!SignedOutPage,
     OfflineP!SignedOutPage, Offline!SignedInPage, OfflineP!SignedInPage, Offline!Post,
     OfflineP!Post, Offline!SameQueue, OfflineP!SameQueue, Offline!Before, OfflineP!Before,
     Offline!Turn, OfflineP!Turn, Offline!Enqueue, OfflineP!Enqueue, Offline!Dequeue,
     OfflineP!Dequeue, Offline!Forget, OfflineP!Forget, Offline!JoinRefresh,
     OfflineP!JoinRefresh, Offline!AfterRefresh, OfflineP!AfterRefresh, Offline!GiveUp,
     OfflineP!GiveUp, Offline!Notifies, OfflineP!Notifies, Offline!Unload, OfflineP!Unload,
     Offline!Apply, OfflineP!Apply
<1>3. Offline!RefusedMeansGone <=> OfflineP!RefusedMeansGone
  BY DEF Offline!RefusedMeansGone, OfflineP!RefusedMeansGone, Offline!NoToken, OfflineP!NoToken
<1>4. Offline!StaysOut <=> OfflineP!StaysOut
  BY DEF Offline!StaysOut, OfflineP!StaysOut, Offline!EditSaved, OfflineP!EditSaved,
     Offline!Idle, OfflineP!Idle
<1>5. Offline!TypeOK <=> OfflineP!TypeOK
  BY DEF Offline!TypeOK, OfflineP!TypeOK, Offline!Tokens, OfflineP!Tokens, Offline!NoToken,
     OfflineP!NoToken, Offline!Answers, OfflineP!Answers
<1>. QED BY <1>1, <1>2, <1>3, <1>4, <1>5

LEMMA OfflineKept ==
  /\ Offline!Init => OfflineP!SessionInv
  /\ OfflineP!SessionInv /\ [Offline!Next]_session => OfflineP!SessionInv' /\ Offline!StaysOut
  /\ OfflineP!SessionInv => Offline!RefusedMeansGone /\ Offline!TypeOK
<1>1. OfflineP!Constants
  BY SessionAssumption DEF OfflineP!Constants
<1>2. OfflineP!browserVars = session
  BY DEF OfflineP!browserVars, session
<1>3. Offline!Init => OfflineP!SessionInv
  BY <1>1, OfflineSame, OfflineP!SessionBegins
<1>4. OfflineP!SessionInv /\ [Offline!Next]_session => OfflineP!SessionInv' /\ Offline!StaysOut
  <2>1. OfflineP!SessionInv /\ [OfflineP!Next]_(OfflineP!browserVars)
          => OfflineP!SessionInv' /\ OfflineP!StaysOut
    BY <1>1, OfflineP!SessionGoesOn
  <2>2. [Offline!Next]_session => [OfflineP!Next]_(OfflineP!browserVars)
    BY <1>2, OfflineSame DEF session, OfflineP!browserVars
  <2>. QED BY <2>1, <2>2, OfflineSame
<1>5. OfflineP!SessionInv => Offline!RefusedMeansGone /\ Offline!TypeOK
  BY OfflineSame, OfflineP!RefusedWhenGone, OfflineP!SessionTypes
<1>. QED BY <1>3, <1>4, <1>5

-----------------------------------------------------------------------------
(* The connections of the pool.                                            *)

\* A refresh waits once, either for its transaction or for the lookup within it.
PoolInv ==
    /\ Pool!TypeOK
    /\ \A i \in DOMAIN waiting : phase[waiting[i]] \in {"connect", "lookup"}
    /\ \A i, j \in DOMAIN waiting : waiting[i] = waiting[j] => i = j

LEMMA SameCardinality == \A S : Pool!Cardinality(S) = Cardinality(S)
BY DEF Pool!Cardinality, Cardinality

\* The refreshes in some places, after one of them has moved.
LEMMA Recount ==
  ASSUME phase \in [Refreshes -> Pool!Phases], NEW r \in Refreshes, NEW p, Pool!Goto(r, p),
         NEW S
  PROVE  /\ Pool!Count(S) \in Nat
         /\ Pool!Count(S)' = Pool!Count(S) + (IF p \in S THEN 1 ELSE 0)
                                           - (IF phase[r] \in S THEN 1 ELSE 0)
<1> DEFINE Others == {q \in Refreshes \ {r} : phase[q] \in S}
<1>1. IsFiniteSet(Others) /\ Cardinality(Others) \in Nat
  BY PoolAssumption, FS_Subset, FS_CardinalityType
<1>2. Cardinality(Others \cup {r}) = Cardinality(Others) + 1
  BY <1>1, FS_AddElement
<1>3. {q \in Refreshes : phase[q] \in S} = IF phase[r] \in S THEN Others \cup {r} ELSE Others
  OBVIOUS
<1>4. \A q \in Refreshes : phase'[q] = IF q = r THEN p ELSE phase[q]
  BY DEF Pool!Goto
<1>5. {q \in Refreshes : phase'[q] \in S} = IF p \in S THEN Others \cup {r} ELSE Others
  BY <1>4
<1> HIDE DEF Others
<1>6. Pool!Count(S) = Cardinality(Others) + (IF phase[r] \in S THEN 1 ELSE 0)
  BY <1>1, <1>2, <1>3, SameCardinality DEF Pool!Count
<1>7. Pool!Count(S)' = Cardinality(Others) + (IF p \in S THEN 1 ELSE 0)
  BY <1>1, <1>2, <1>5, SameCardinality DEF Pool!Count
<1>. QED BY <1>1, <1>6, <1>7

\* A refresh that has moved, when the connections it holds have changed as much as the
\* free ones.
LEMMA Moved ==
  ASSUME PoolInv, NEW r \in Refreshes, NEW p \in Pool!Phases, Pool!Goto(r, p),
         NEW n \in Nat, free' = n,
         n + (IF p \in {"lock", "lookup", "user"} THEN 1 ELSE 0) + (IF p = "user" THEN 1 ELSE 0)
           = free + (IF phase[r] \in {"lock", "lookup", "user"} THEN 1 ELSE 0)
                  + (IF phase[r] = "user" THEN 1 ELSE 0),
         token' = token, rows' \subseteq Presented,
         owner' \in [Presented -> Refreshes \cup {NoHolder}],
         waiting' \in Seq(Refreshes)
  PROVE  Pool!TypeOK'
<1>1. phase' \in [Refreshes -> Pool!Phases]
  BY DEF PoolInv, Pool!TypeOK, Pool!Goto
<1> DEFINE Holding == {"lock", "lookup", "user"}
           Twice   == {"user"}
<1>2. /\ Pool!Count(Holding) \in Nat
      /\ Pool!Count(Holding)' = Pool!Count(Holding) + (IF p \in Holding THEN 1 ELSE 0)
                                                    - (IF phase[r] \in Holding THEN 1 ELSE 0)
  BY Recount DEF PoolInv, Pool!TypeOK
<1>3. /\ Pool!Count(Twice) \in Nat
      /\ Pool!Count(Twice)' = Pool!Count(Twice) + (IF p \in Twice THEN 1 ELSE 0)
                                                - (IF phase[r] \in Twice THEN 1 ELSE 0)
  BY Recount DEF PoolInv, Pool!TypeOK
<1>4. free + Pool!Count(Holding) + Pool!Count(Twice) = PoolSize /\ free \in Nat
  BY DEF PoolInv, Pool!TypeOK
<1>5. n + Pool!Count(Holding)' + Pool!Count(Twice)' = PoolSize
  <2> DEFINE a == IF p \in Holding THEN 1 ELSE 0
             b == IF p \in Twice THEN 1 ELSE 0
             c == IF phase[r] \in Holding THEN 1 ELSE 0
             d == IF phase[r] \in Twice THEN 1 ELSE 0
             h == Pool!Count(Holding)
             t == Pool!Count(Twice)
  <2>1. n + a + b = free + c + d /\ a \in Nat /\ b \in Nat /\ c \in Nat /\ d \in Nat
    OBVIOUS
  <2>2. h \in Nat /\ t \in Nat /\ free + h + t = PoolSize
    BY <1>2, <1>3, <1>4
  <2> HIDE DEF a, b, c, d, h, t
  <2>3. n + (h + a - c) + (t + b - d) = PoolSize
    BY <1>4, <2>1, <2>2
  <2>. QED BY <1>2, <1>3, <2>3 DEF a, b, c, d, h, t
<1>. QED BY <1>1, <1>5 DEF Pool!TypeOK, PoolInv

LEMMA ReleaseTypes ==
  ASSUME PoolInv, NEW r, NEW n, Pool!Release(r, n)
  PROVE  free' = free + n /\ owner' \in [Presented -> Refreshes \cup {NoHolder}]
BY DEF PoolInv, Pool!TypeOK, Pool!Release

LEMMA PoolBegins == Pool!Init => PoolInv
<1> SUFFICES ASSUME Pool!Init PROVE PoolInv
  OBVIOUS
<1>1. \A S : "idle" \notin S => Pool!Count(S) = 0
  <2> SUFFICES ASSUME NEW S, "idle" \notin S PROVE Pool!Count(S) = 0
    OBVIOUS
  <2>1. {r \in Refreshes : phase[r] \in S} = {}
    BY DEF Pool!Init
  <2>. QED BY <2>1, FS_EmptySet, SameCardinality DEF Pool!Count
<1>2. Pool!Count({"lock", "lookup", "user"}) = 0 /\ Pool!Count({"user"}) = 0
  BY <1>1
<1>3. waiting \in Seq(Refreshes) /\ DOMAIN waiting = {}
  BY EmptySeq DEF Pool!Init
<1>. QED BY <1>2, <1>3, PoolAssumption DEF Pool!Init, PoolInv, Pool!TypeOK, Pool!Phases

\* A refresh that did not wait asks for a connection.
LEMMA Asks ==
  ASSUME PoolInv, NEW r \in Refreshes, NEW p \in {"connect", "lookup"}, Pool!Goto(r, p),
         Pool!Ask(r), phase[r] \notin {"connect", "lookup"}, Pool!TypeOK'
  PROVE  PoolInv'
<1>1. waiting \in Seq(Refreshes) /\ Len(waiting) \in Nat /\ DOMAIN waiting = 1 .. Len(waiting)
  BY LenProperties DEF PoolInv, Pool!TypeOK
<1>2. waiting' = Append(waiting, r) /\ DOMAIN waiting' = 1 .. Len(waiting) + 1
  BY <1>1 DEF Pool!Ask
<1>3. \A i \in 1 .. Len(waiting) + 1 :
        waiting'[i] = IF i = Len(waiting) + 1 THEN r ELSE waiting[i]
  BY <1>1, <1>2
<1>4. \A i \in 1 .. Len(waiting) : waiting[i] # r /\ waiting[i] \in Refreshes
  BY <1>1, ElementOfSeq DEF PoolInv
<1>5. \A q \in Refreshes : phase'[q] = IF q = r THEN p ELSE phase[q]
  BY DEF Pool!Goto, PoolInv, Pool!TypeOK
<1>6. \A i \in DOMAIN waiting' : i = Len(waiting) + 1 \/ i \in DOMAIN waiting
  BY <1>1, <1>2
<1>7. \A i \in DOMAIN waiting' : phase'[waiting'[i]] \in {"connect", "lookup"}
  BY <1>1, <1>2, <1>3, <1>4, <1>5, <1>6 DEF PoolInv
<1>8. \A i, j \in DOMAIN waiting' : waiting'[i] = waiting'[j] => i = j
  BY <1>1, <1>2, <1>3, <1>4, <1>6 DEF PoolInv
<1>. QED BY <1>7, <1>8 DEF PoolInv

\* A refresh is served, or leaves the queue.
LEMMA Leaves ==
  ASSUME PoolInv, NEW r \in Refreshes, NEW p \in Pool!Phases, Pool!Goto(r, p),
         NEW k \in DOMAIN waiting, waiting[k] = r,
         waiting' \in Seq(Refreshes), Len(waiting') = Len(waiting) - 1,
         \A i \in DOMAIN waiting' : waiting'[i] = waiting[IF i < k THEN i ELSE i + 1],
         Pool!TypeOK'
  PROVE  PoolInv'
<1>1. waiting \in Seq(Refreshes) /\ Len(waiting) \in Nat /\ DOMAIN waiting = 1 .. Len(waiting)
      /\ Len(waiting') \in Nat /\ DOMAIN waiting' = 1 .. Len(waiting')
  BY LenProperties DEF PoolInv, Pool!TypeOK
<1> DEFINE At(i) == IF i < k THEN i ELSE i + 1
<1>2. \A i \in DOMAIN waiting' : At(i) \in DOMAIN waiting /\ At(i) # k
  BY <1>1
<1>3. \A i, j \in DOMAIN waiting' : At(i) = At(j) => i = j
  BY <1>1
<1>4. \A q \in Refreshes : q # r => phase'[q] = phase[q]
  BY DEF Pool!Goto, PoolInv, Pool!TypeOK
<1>5. \A i \in DOMAIN waiting' : waiting'[i] = waiting[At(i)]
  OBVIOUS
<1>6. \A i \in DOMAIN waiting : waiting[i] \in Refreshes
  BY <1>1, ElementOfSeq
<1> HIDE DEF At
<1>7. \A i \in DOMAIN waiting' : waiting'[i] # r /\ waiting'[i] \in Refreshes
  BY <1>2, <1>5, <1>6 DEF PoolInv
<1>8. \A i \in DOMAIN waiting' : phase'[waiting'[i]] \in {"connect", "lookup"}
  BY <1>2, <1>4, <1>5, <1>7 DEF PoolInv
<1>9. \A i, j \in DOMAIN waiting' : waiting'[i] = waiting'[j] => i = j
  BY <1>2, <1>3, <1>5 DEF PoolInv
<1>. QED BY <1>8, <1>9 DEF PoolInv

\* The queue does not move, and with it a refresh that is not in it.
LEMMA StaysAway ==
  ASSUME PoolInv, NEW r \in Refreshes, NEW p, Pool!Goto(r, p),
         phase[r] \notin {"connect", "lookup"}, waiting' = waiting, Pool!TypeOK'
  PROVE  PoolInv'
<1>1. \A i \in DOMAIN waiting : waiting[i] # r /\ waiting[i] \in Refreshes
  BY ElementOfSeq, LenProperties DEF PoolInv, Pool!TypeOK
<1>. QED BY <1>1 DEF PoolInv, Pool!Goto, Pool!TypeOK

LEMMA BeginKept == ASSUME PoolInv, NEW r \in Refreshes, Pool!Begin(r) PROVE PoolInv'
<1>1. waiting' \in Seq(Refreshes)
  BY DEF Pool!Begin, Pool!Ask, PoolInv, Pool!TypeOK
<1>2. Pool!TypeOK'
  BY <1>1, Moved DEF Pool!Begin, PoolInv, Pool!TypeOK, Pool!Phases
<1>. QED BY <1>2, Asks DEF Pool!Begin

LEMMA LockKept == ASSUME PoolInv, NEW r \in Refreshes, Pool!Lock(r) PROVE PoolInv'
<1>1. waiting' \in Seq(Refreshes)
  BY DEF Pool!Lock, Pool!Ask, PoolInv, Pool!TypeOK
<1>2. owner' \in [Presented -> Refreshes \cup {NoHolder}] /\ rows' \subseteq Presented
  BY DEF Pool!Lock, PoolInv, Pool!TypeOK
<1>3. Pool!TypeOK'
  BY <1>1, <1>2, Moved DEF Pool!Lock, PoolInv, Pool!TypeOK, Pool!Phases
<1>. QED BY <1>3, Asks DEF Pool!Lock

LEMMA ConnectKept == ASSUME PoolInv, NEW r \in Refreshes, Pool!Connect(r) PROVE PoolInv'
<1>1. waiting \in Seq(Refreshes) /\ waiting # <<>> /\ waiting[1] = r /\ waiting' = Tail(waiting)
  BY DEF Pool!Connect, PoolInv, Pool!TypeOK
<1>2. /\ Len(waiting) \in Nat /\ Len(waiting) # 0 /\ DOMAIN waiting = 1 .. Len(waiting)
      /\ waiting' \in Seq(Refreshes) /\ Len(waiting') = Len(waiting) - 1
      /\ \A i \in 1 .. Len(waiting') : waiting'[i] = waiting[i + 1]
      /\ DOMAIN waiting' = 1 .. Len(waiting')
  BY <1>1, LenProperties, EmptySeq, HeadTailProperties
<1>3. 1 \in DOMAIN waiting /\ phase[r] \in {"connect", "lookup"}
  BY <1>1, <1>2 DEF PoolInv
<1>4. free - 1 \in Nat /\ free \in Nat
  BY DEF Pool!Connect, PoolInv, Pool!TypeOK
<1>5. Pool!TypeOK'
  BY <1>2, <1>3, <1>4, Moved DEF Pool!Connect, PoolInv, Pool!TypeOK, Pool!Phases
<1>6. \A i \in DOMAIN waiting' : waiting'[i] = waiting[IF i < 1 THEN i ELSE i + 1]
  BY <1>2
<1>7. PICK p \in {"lock", "user"} : Pool!Goto(r, p)
  BY DEF Pool!Connect
<1>. QED BY <1>1, <1>2, <1>3, <1>5, <1>6, <1>7, Leaves DEF Pool!Phases

LEMMA RefuseKept == ASSUME PoolInv, NEW r \in Refreshes, Pool!Refuse(r) PROVE PoolInv'
<1>1. free' = free + 1 /\ owner' \in [Presented -> Refreshes \cup {NoHolder}]
  BY ReleaseTypes DEF Pool!Refuse
<1>2. Pool!TypeOK'
  BY <1>1, Moved DEF Pool!Refuse, PoolInv, Pool!TypeOK, Pool!Phases
<1>. QED BY <1>2, StaysAway DEF Pool!Refuse

LEMMA RotateKept == ASSUME PoolInv, NEW r \in Refreshes, Pool!Rotate(r) PROVE PoolInv'
<1>1. free' = free + 2 /\ owner' \in [Presented -> Refreshes \cup {NoHolder}]
  BY ReleaseTypes DEF Pool!Rotate
<1>2. Pool!TypeOK'
  BY <1>1, Moved DEF Pool!Rotate, PoolInv, Pool!TypeOK, Pool!Phases
<1>. QED BY <1>2, StaysAway DEF Pool!Rotate

LEMMA TimeoutKept == ASSUME PoolInv, NEW r \in Refreshes, Pool!Timeout(r) PROVE PoolInv'
<1>1. PICK k \in DOMAIN waiting : waiting[k] = r /\ waiting' = Pool!RemoveAt(waiting, k)
  BY DEF Pool!Timeout
<1>2. waiting \in Seq(Refreshes) /\ Len(waiting) \in Nat /\ k \in 1 .. Len(waiting)
      /\ \A j \in 1 .. Len(waiting) : waiting[j] \in Refreshes
  BY LenProperties, ElementOfSeq DEF PoolInv, Pool!TypeOK
<1> DEFINE before == SubSeq(waiting, 1, k - 1)
           after  == SubSeq(waiting, k + 1, Len(waiting))
<1>3. before \in Seq(Refreshes) /\ Len(before) = k - 1 /\ \A i \in 1 .. k - 1 : before[i] = waiting[i]
  BY <1>2, SubSeqProperties
<1>4. after \in Seq(Refreshes) /\ Len(after) = Len(waiting) - k
      /\ \A i \in 1 .. Len(waiting) - k : after[i] = waiting[k + i]
  BY <1>2, SubSeqProperties
<1>5. waiting' = before \o after
  BY <1>1 DEF Pool!RemoveAt
<1> HIDE DEF before, after
<1>6. /\ waiting' \in Seq(Refreshes) /\ Len(waiting') = Len(before) + Len(after)
      /\ DOMAIN waiting' = 1 .. Len(waiting')
      /\ \A i \in 1 .. Len(before) + Len(after) :
           waiting'[i] = IF i <= Len(before) THEN before[i] ELSE after[i - Len(before)]
  BY <1>3, <1>4, <1>5, ConcatProperties, LenProperties
<1>7. Len(waiting') = Len(waiting) - 1
  BY <1>2, <1>3, <1>4, <1>6
<1>8. \A i \in DOMAIN waiting' : waiting'[i] = waiting[IF i < k THEN i ELSE i + 1]
  <2> SUFFICES ASSUME NEW i \in DOMAIN waiting'
               PROVE  waiting'[i] = waiting[IF i < k THEN i ELSE i + 1]
    OBVIOUS
  <2>1. i \in 1 .. Len(waiting) - 1
    BY <1>6, <1>7
  <2>2. CASE i < k
    BY <1>2, <1>3, <1>4, <1>6, <2>1, <2>2
  <2>3. CASE ~(i < k)
    <3>1. i - Len(before) \in 1 .. Len(waiting) - k /\ k + (i - Len(before)) = i + 1
      BY <1>2, <1>3, <2>1, <2>3
    <3>2. waiting'[i] = after[i - Len(before)]
      BY <1>2, <1>3, <1>4, <1>6, <2>1, <2>3
    <3>. QED BY <1>4, <2>3, <3>1, <3>2
  <2>. QED BY <2>2, <2>3
<1>9. phase[r] \in {"connect", "lookup"}
  BY <1>1 DEF PoolInv
<1>10. free' = free + (IF phase[r] = "lookup" THEN 1 ELSE 0)
       /\ owner' \in [Presented -> Refreshes \cup {NoHolder}]
  BY ReleaseTypes DEF Pool!Timeout
<1>11. Pool!TypeOK'
  BY <1>6, <1>9, <1>10, Moved DEF Pool!Timeout, PoolInv, Pool!TypeOK, Pool!Phases
<1>. QED BY <1>1, <1>6, <1>7, <1>8, <1>11, Leaves DEF Pool!Timeout, Pool!Phases

LEMMA RetryKept == ASSUME PoolInv, NEW r \in Refreshes, Pool!Retry(r) PROVE PoolInv'
<1>1. Pool!TypeOK'
  BY Moved DEF Pool!Retry, PoolInv, Pool!TypeOK, Pool!Phases
<1>. QED BY <1>1, StaysAway DEF Pool!Retry

LEMMA PoolGoesOn == PoolInv /\ [Pool!Next]_pool => PoolInv'
<1>1. ASSUME PoolInv, UNCHANGED pool PROVE PoolInv'
  BY <1>1 DEF pool, PoolInv, Pool!TypeOK, Pool!Count
<1>. QED BY <1>1, BeginKept, ConnectKept, LockKept, RefuseKept, RotateKept, TimeoutKept, RetryKept
     DEF Pool!Next

-----------------------------------------------------------------------------
(* The parts together.                                                     *)

ClientsInv ==
    /\ part = "editing" => EditingP!SessionInv
    /\ part = "sign-ins" => SignInsP!SessionInv
    /\ part = "offline" => OfflineP!SessionInv
    /\ part = "chat" => ChatInv /\ ChatBounds
    /\ part = "pool" => PoolInv

LEMMA ClientsBegin == ClientsInit => ClientsInv
BY EditingKept, SignInsKept, OfflineKept, ChatBegins, BoundsBegin, PoolBegins
DEF ClientsInit, ClientsInv

\* A part that does not move keeps its invariant.
LEMMA Parked ==
  /\ EditingP!SessionInv /\ UNCHANGED session => EditingP!SessionInv'
  /\ SignInsP!SessionInv /\ UNCHANGED session => SignInsP!SessionInv'
  /\ OfflineP!SessionInv /\ UNCHANGED session => OfflineP!SessionInv'
  /\ ChatInv /\ ChatBounds /\ UNCHANGED chat => ChatInv' /\ ChatBounds'
  /\ PoolInv /\ UNCHANGED pool => PoolInv'
BY EditingKept, SignInsKept, OfflineKept, ChatGoesOn, BoundsGoOn, PoolGoesOn

StaysOut ==
    /\ part = "editing" => Editing!StaysOut
    /\ part = "sign-ins" => SignIns!StaysOut
    /\ part = "offline" => Offline!StaysOut

LEMMA ClientsGoOn ==
  ClientsInv /\ [ClientsNext]_<<part, session, chat, pool>> => ClientsInv' /\ [StaysOut]_session
<1> SUFFICES ASSUME ClientsInv, [ClientsNext]_<<part, session, chat, pool>>
             PROVE  ClientsInv' /\ [StaysOut]_session
  OBVIOUS
<1>1. CASE SessionSteps
  <2>1. part' = part /\ UNCHANGED chat
    BY <1>1 DEF SessionSteps
  <2>2. CASE part = "editing" /\ Editing!Next
    BY <2>1, <2>2, EditingKept DEF ClientsInv, StaysOut
  <2>3. CASE part = "sign-ins" /\ SignIns!Next
    BY <2>1, <2>3, SignInsKept DEF ClientsInv, StaysOut
  <2>4. CASE part = "offline" /\ Offline!Next
    BY <2>1, <2>4, OfflineKept DEF ClientsInv, StaysOut
  <2>. QED BY <1>1, <2>2, <2>3, <2>4 DEF SessionSteps
<1>2. CASE ChatSteps
  <2>1. part = "chat" /\ Chat!Next /\ part' = part /\ UNCHANGED session
    BY <1>2 DEF ChatSteps
  <2>. QED BY <2>1, ChatGoesOn, BoundsGoOn DEF ClientsInv
<1>3. CASE PoolSteps
  <2>1. part = "pool" /\ Pool!Next /\ part' = part /\ UNCHANGED session
    BY <1>3 DEF PoolSteps
  <2>. QED BY <2>1, PoolGoesOn DEF ClientsInv
<1>4. CASE UNCHANGED <<part, session, chat, pool>>
  BY <1>4, Parked DEF ClientsInv
<1>. QED BY <1>1, <1>2, <1>3, <1>4 DEF ClientsNext

\* The invariant of the sessions, of the chat and of the pool holds throughout.
THEOREM ClientsInvariant == ClientsSpec => []ClientsInv
<1>1. ClientsInv /\ [ClientsNext]_<<part, session, chat, pool>> => ClientsInv'
  BY ClientsGoOn
<1>. QED BY <1>1, ClientsBegin, PTL DEF ClientsSpec

\* For any tabs, requests, refreshes and bounds: every part keeps its types.  An answer is
\* not tried more often than allowed and one request is under way at most; every connection
\* of the pool is free or held, twice by a refresh whose lookup has one too
\* (auth.service.ts, chat.service.ts, ChatSection.tsx).
THEOREM TypesAlwaysOK == ClientsSpec => []TypesOK
<1>1. ClientsInv => TypesOK
  BY EditingKept, SignInsKept, OfflineKept, ChatTyped DEF ClientsInv, TypesOK, PoolInv
<1>. QED BY <1>1, ClientsInvariant, PTL

\* For any tabs, sign-ins and reloads: under the lock a refresh is refused only when its
\* session is gone, or an answer with the successor was lost (auth-session.ts:99-112).
THEOREM RefusedOnlyWhenGone == ClientsSpec => []RefusedMeansGone
<1>1. ClientsInv => RefusedMeansGone
  BY EditingKept, SignInsKept, OfflineKept DEF ClientsInv, RefusedMeansGone
<1>. QED BY <1>1, ClientsInvariant, PTL

\* For any tabs, sign-ins and reloads: a tab that was signed out shows no user until a
\* session is established, except that of a profile edit (AuthContext.tsx).
THEOREM ClearedTabAlwaysStaysOut == ClientsSpec => ClearedTabStaysOut
<1>1. ClientsInv /\ [ClientsNext]_<<part, session, chat, pool>> => [StaysOut]_session
  BY ClientsGoOn
<1>. QED BY <1>1, ClientsInvariant, PTL DEF ClientsSpec, ClearedTabStaysOut, StaysOut

\* For any number of requests, attempts and pieces: what is shown of an answer is the
\* beginning of one attempt, and an answer that is kept as complete is the one the server
\* resolved, behind its question (chat.service.ts, chat-stream.ts, ChatSection.tsx).
THEOREM OneAttemptAlwaysShown == ClientsSpec => []OneAttemptShown
<1>1. ClientsInv => OneAttemptShown
  BY ChatMeans DEF ClientsInv, OneAttemptShown
<1>. QED BY <1>1, ClientsInvariant, PTL
=============================================================================
