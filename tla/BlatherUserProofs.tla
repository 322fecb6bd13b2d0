-------------------------- MODULE BlatherUserProofs --------------------------
(***************************************************************************)
(* BlatherClient implements ChatUser, for every alphabet, size of the line *)
(* buffer, length of messages and capacity of the FIFO.                    *)
(***************************************************************************)
EXTENDS BlatherClientProofs

Empty == [line |-> <<>>, lines |-> <<>>]

\* What ChatUser makes of a sequence of keys: the line so far and the lines before it.
Entry(s) == User1!FoldLeft(User1!Pressed, Empty, s)

\* The recursive function that FoldLeft is defined by.
Unfolds(s, g) ==
    g = [S \in SUBSET (DOMAIN s) |->
           IF S = {} THEN Empty ELSE User1!Pressed(g[S \ {User1!Max(S)}], s[User1!Max(S)])]
Folded(s) == CHOOSE g : Unfolds(s, g)

LEMMA EntryIs ==
    ASSUME NEW s
    PROVE  Entry(s) = Folded(s)[DOMAIN s]
<1>1. Entry(s) = (CHOOSE g : Unfolds(s, g))[DOMAIN s]
  BY DEF Entry, Unfolds, User1!FoldLeft, User1!MapThenFoldSet
<1> QED
  BY <1>1 DEF Folded

\* The greatest of a set of numbers that are not above one of its members.
LEMMA MaxOf ==
    ASSUME NEW S, S \subseteq Nat, NEW n \in S, \A m \in S : m <= n
    PROVE  User1!Max(S) = n
<1> DEFINE Top(x) == \A y \in S : x >= y
<1>1. Top(n)
  OBVIOUS
<1>2. \A x \in S : Top(x) => x = n
  OBVIOUS
<1>3. User1!Max(S) = CHOOSE x \in S : Top(x)
  BY DEF User1!Max
<1> HIDE DEF Top
<1> QED
  BY <1>1, <1>2, <1>3

\* A set of positions of a sequence has a greatest one.
LEMMA GreatestOf ==
    ASSUME NEW n \in Nat, NEW S, S \subseteq 1 .. n, S # {}
    PROVE  User1!Max(S) \in S
<1> DEFINE T == {n - m : m \in S}
<1>1. T \subseteq Nat /\ T # {}
  <2>1. \A k \in S : n - k \in Nat
    <3>1. \A k \in 1 .. n : n - k \in Nat
      OBVIOUS
    <3>2. QED
      BY <3>1
  <2>2. T \subseteq Nat
    BY <2>1
  <2>3. PICK k \in S : TRUE
    OBVIOUS
  <2>4. n - k \in T
    BY <2>3
  <2>5. QED
    BY <2>2, <2>4
<1>2. PICK t \in T : \A u \in T : t <= u
  <2> HIDE DEF T
  <2> QED
    BY <1>1, LeastOf
<1>3. PICK m \in S : t = n - m
  OBVIOUS
<1>4. \A k \in S : n - k \in T
  OBVIOUS
<1>5. \A k \in S : k <= m
  BY <1>2, <1>3, <1>4
<1>6. S \subseteq Nat /\ m \in S
  BY <1>3
<1>7. User1!Max(S) = m
  BY <1>5, <1>6, MaxOf
<1> QED
  BY <1>6, <1>7

\* The recursion of the fold ends, for every sequence.
LEMMA FoldedIs ==
    ASSUME NEW s, NEW n \in Nat, DOMAIN s = 1 .. n
    PROVE  Unfolds(s, Folded(s))
<1> DEFINE Val(g, S) ==
             IF S = {} THEN Empty ELSE User1!Pressed(g[S \ {User1!Max(S)}], s[User1!Max(S)])
           Good(m, g) == /\ DOMAIN g = SUBSET (1 .. m)
                         /\ g = [S \in SUBSET (1 .. m) |-> g[S]]
                         /\ \A S \in SUBSET (1 .. m) : g[S] = Val(g, S)
           T == {m \in Nat : ~ \E g : Good(m, g)}
<1>1. \E g : Good(0, g)
  <2>1. SUBSET (1 .. 0) = {{}}
    OBVIOUS
  <2> DEFINE g == [S \in SUBSET (1 .. 0) |-> Empty]
  <2>2. Good(0, g)
    BY <2>1
  <2> QED
    BY <2>2
<1>2. ASSUME NEW m \in Nat, NEW g, Good(m, g)
      PROVE  \E h : Good(m + 1, h)
  <2> DEFINE h == [S \in SUBSET (1 .. m + 1) |->
                     IF m + 1 \in S THEN User1!Pressed(g[S \ {m + 1}], s[m + 1]) ELSE g[S]]
  <2>1. ASSUME NEW S \in SUBSET (1 .. m + 1), m + 1 \in S
        PROVE  h[S] = Val(h, S)
    <3>a. S \subseteq Nat /\ \A k \in S : k <= m + 1
      OBVIOUS
    <3>1. User1!Max(S) = m + 1
      BY <2>1, <3>a, MaxOf
    <3>2. S \ {m + 1} \in SUBSET (1 .. m + 1) /\ m + 1 \notin S \ {m + 1}
      OBVIOUS
    <3>3. h[S \ {m + 1}] = g[S \ {m + 1}] /\ h[S] = User1!Pressed(g[S \ {m + 1}], s[m + 1])
      BY <2>1, <3>2
    <3> QED
      BY <2>1, <3>1, <3>3
  <2>2. ASSUME NEW S \in SUBSET (1 .. m + 1), m + 1 \notin S
        PROVE  h[S] = Val(h, S)
    <3>1. S \in SUBSET (1 .. m)
      BY <2>2
    <3>2. h[S] = g[S] /\ g[S] = Val(g, S)
      BY <1>2, <2>2, <3>1
    <3>3. CASE S = {}
      BY <3>2, <3>3
    <3>4. CASE S # {}
      <4>1. User1!Max(S) \in S
        BY <3>1, <3>4, GreatestOf
      <4>2. S \ {User1!Max(S)} \in SUBSET (1 .. m + 1) /\ m + 1 \notin S \ {User1!Max(S)}
        BY <2>2
      <4>3. h[S \ {User1!Max(S)}] = g[S \ {User1!Max(S)}]
        BY <4>2
      <4> QED
        BY <3>2, <3>4, <4>3
    <3> QED
      BY <3>3, <3>4
  <2>3. \A S \in SUBSET (1 .. m + 1) : h[S] = Val(h, S)
    BY <2>1, <2>2
  <2>4. DOMAIN h = SUBSET (1 .. m + 1) /\ h = [S \in SUBSET (1 .. m + 1) |-> h[S]]
    BY Zenon
  <2> HIDE DEF h
  <2> QED
    BY <2>3, <2>4
<1>3. T = {}
  <2> SUFFICES ASSUME T # {} PROVE FALSE
    OBVIOUS
  <2>1. PICK m \in T : \A k \in T : m <= k
    <3>1. T \subseteq Nat
      OBVIOUS
    <3> HIDE DEF T
    <3> QED
      BY <3>1, LeastOf
  <2> HIDE DEF Good
  <2>2. m # 0 /\ m \in Nat /\ ~ \E g : Good(m, g)
    BY <1>1, <2>1
  <2>3. m - 1 \in Nat /\ m - 1 \notin T /\ (m - 1) + 1 = m
    BY <2>1, <2>2
  <2>4. PICK g : Good(m - 1, g)
    BY <2>3
  <2> QED
    BY <1>2, <2>2, <2>3, <2>4
<1>4. PICK g : Good(n, g)
  <2> HIDE DEF Good
  <2> QED
    BY <1>3
<1>5. Unfolds(s, g)
  BY <1>4, Zenon DEF Unfolds
<1> QED
  BY <1>5, Zenon DEF Folded

\* What it is at the positions up to m.
LEMMA FoldedAt ==
    ASSUME NEW s, NEW n \in Nat, DOMAIN s = 1 .. n, NEW m \in 1 .. n
    PROVE  Folded(s)[1 .. m] = User1!Pressed(Folded(s)[1 .. m - 1], s[m])
<1>a. 1 .. m \subseteq Nat /\ m \in 1 .. m /\ \A k \in 1 .. m : k <= m
  OBVIOUS
<1>1. User1!Max(1 .. m) = m
  BY <1>a, MaxOf
<1>b. 1 .. m \in SUBSET (DOMAIN s) /\ 1 .. m # {}
  <2>1. 1 .. m \subseteq 1 .. n
    OBVIOUS
  <2> QED
    BY <1>a, <2>1
<1>c. (1 .. m) \ {m} = 1 .. m - 1
  OBVIOUS
<1>2. 1 .. m \in SUBSET (DOMAIN s) /\ 1 .. m # {} /\ (1 .. m) \ {m} = 1 .. m - 1
  BY <1>b, <1>c
<1>3. Unfolds(s, Folded(s))
  BY FoldedIs
<1>4. Folded(s)[1 .. m] =
        User1!Pressed(Folded(s)[(1 .. m) \ {User1!Max(1 .. m)}], s[User1!Max(1 .. m)])
  BY <1>2, <1>3, Zenon DEF Unfolds
<1> QED
  BY <1>1, <1>2, <1>4

LEMMA FoldedAtNone ==
    ASSUME NEW s, NEW n \in Nat, DOMAIN s = 1 .. n
    PROVE  Folded(s)[{}] = Empty
<1>1. Unfolds(s, Folded(s))
  BY FoldedIs
<1>2. {} \in SUBSET (DOMAIN s)
  OBVIOUS
<1> QED
  BY <1>1, <1>2, Zenon DEF Unfolds

\* Without keys there is no line.
LEMMA EntryOfNone == Entry(<<>>) = Empty
<1>1. DOMAIN <<>> = 1 .. 0 /\ 1 .. 0 = {}
  OBVIOUS
<1> QED
  BY <1>1, EntryIs, FoldedAtNone

\* One more key is pressed after those before it.
LEMMA EntryOfMore ==
    ASSUME NEW s \in Seq(KeySet), NEW k \in KeySet
    PROVE  Entry(Append(s, k)) = User1!Pressed(Entry(s), k)
<1> DEFINE n == Len(s)
           r == Append(s, k)
           T == {m \in Nat : m <= n /\ Folded(r)[1 .. m] # Folded(s)[1 .. m]}
<1>1. n \in Nat /\ DOMAIN s = 1 .. n /\ DOMAIN r = 1 .. n + 1
  OBVIOUS
<1>2. \A i \in 1 .. n : r[i] = s[i]
  OBVIOUS
<1>3. r[n + 1] = k
  OBVIOUS
<1> HIDE DEF n, r
<1>4. T = {}
  <2> SUFFICES ASSUME T # {} PROVE FALSE
    OBVIOUS
  <2>1. PICK m \in T : \A j \in T : m <= j
    <3>1. T \subseteq Nat
      OBVIOUS
    <3> HIDE DEF T
    <3> QED
      BY <3>1, LeastOf
  <2>2. m # 0
    <3>1. 1 .. 0 = {}
      OBVIOUS
    <3>2. Folded(r)[{}] = Empty
      BY <1>1, FoldedAtNone
    <3>3. Folded(s)[{}] = Empty
      BY <1>1, FoldedAtNone
    <3> QED
      BY <2>1, <3>1, <3>2, <3>3
  <2>3. m \in 1 .. n /\ m - 1 \in Nat /\ m - 1 \notin T /\ m - 1 <= n
    BY <1>1, <2>1, <2>2
  <2>4. Folded(r)[1 .. m - 1] = Folded(s)[1 .. m - 1]
    BY <2>3
  <2>5. Folded(s)[1 .. m] = User1!Pressed(Folded(s)[1 .. m - 1], s[m])
    BY <1>1, <2>3, FoldedAt
  <2>6. m \in 1 .. n + 1 /\ n + 1 \in Nat
    BY <1>1, <2>3
  <2>7. Folded(r)[1 .. m] = User1!Pressed(Folded(r)[1 .. m - 1], r[m])
    BY <1>1, <2>6, FoldedAt
  <2>8. r[m] = s[m]
    BY <1>2, <2>3
  <2> QED
    BY <2>1, <2>4, <2>5, <2>7, <2>8
<1>5. Folded(r)[1 .. n] = Folded(s)[1 .. n]
  BY <1>1, <1>4
<1>6. n + 1 \in 1 .. n + 1 /\ n + 1 \in Nat /\ (n + 1) - 1 = n
  BY <1>1
<1>7. Folded(r)[1 .. n + 1] = User1!Pressed(Folded(r)[1 .. n], r[n + 1])
  BY <1>1, <1>6, FoldedAt
<1> QED
  BY <1>1, <1>3, <1>5, <1>7, EntryIs DEF r

-----------------------------------------------------------------------------
(* What has been typed, what is in the buffer and what has been said *)

\* The line so far, as the editor has it.
Typing == [i \in 1 .. pos |-> buf[i - 1]]

\* The input is over when its last key says so, until the next line begins.
InputInv ==
    /\ end_of_input = User1!Over(typed)
    /\ pc["user"] \in {"none", "reset", "getc", "nul", "echo", "erase"} => ~end_of_input
    /\ pc["user"] \in {"cancel", "depart"} => end_of_input

\* The keys make the line l, and before it the lines s if the server can be written to.
Makes(l, s) == Entry(typed) = [line |-> l, lines |-> IF linked THEN s ELSE Entry(typed).lines]

\* The keys typed make the lines said and the line in the buffer, but for a line
\* that is on its way to the server.
SaidInv ==
    /\ pc["user"] = "none" => typed = <<>>
    /\ pc["user"] \in {"none", "reset"} \/ (pc["user"] \in {"copy", "write"} /\ ~end_of_input) =>
         Makes(<<>>, said)
    /\ pc["user"] \in {"getc", "nul", "echo", "erase"} => Makes(Typing, said)
    /\ pc["user"] = "send" => Makes(<<>>, Append(said, TypedText))
    /\ pc["user"] \in {"copy", "write", "cancel", "depart"} /\ end_of_input /\ linked =>
         Entry(typed).lines = said

\* Whether the FIFOs could be opened is decided in main, at the start.
OpenInv == pc["main"] = "setup" => opened /\ linked

\* The inductive invariant of this section.
UserInv == InputInv /\ SaidInv /\ OpenInv

\* It holds initially.
LEMMA UserInit == Init => UserInv
<1> SUFFICES ASSUME Init PROVE UserInv
  OBVIOUS
<1>1. typed = <<>> /\ said = <<>> /\ ~end_of_input /\ opened /\ linked
  BY Zenon DEF Init, InitSimpio
<1>2. pc["user"] = "none"
  BY DEF Init, Threads, Printers
<1>3. ~User1!Over(typed)
  BY <1>1 DEF User1!Over
<1>4. InputInv
  <2>1. end_of_input = User1!Over(typed)
    BY <1>1, <1>3 DEF Init, InitSimpio, User1!Over
  <2> QED
    BY <1>1, <1>2, <2>1 DEF InputInv
<1>5. SaidInv
  BY <1>1, <1>2, EntryOfNone DEF SaidInv, Makes, Empty
<1> QED
  BY <1>1, <1>4, <1>5 DEF UserInv, OpenInv

\* Each step that types nothing and says nothing, and leaves buf to the user thread.
LEMMA UserQuiet ==
    ASSUME UserInv, UNCHANGED <<keys, said, end_of_input, linked>>,
           pc["main"] # "setup" \/ pc'["main"] # "setup" \/ UNCHANGED opened,
           pc'["main"] # "setup" \/ pc["main"] = "setup",
           \/ UNCHANGED <<buf, pos>> /\ pc'["user"] = pc["user"]
           \/ pc'["user"] = "over"
           \/ pc["user"] = "none" /\ pc'["user"] = "reset"
           \/ pc["user"] = "reset" /\ pc'["user"] = "copy"
           \/ pc["user"] = "copy" /\ pc'["user"] = "write"
           \/ pc["user"] = "write" /\ end_of_input /\ pc'["user"] = "cancel"
           \/ pc["user"] = "write" /\ ~end_of_input /\ pc'["user"] = "getc" /\ pos' = 0
           \/ pc["user"] = "cancel" /\ pc'["user"] = "depart"
           \/ pc["user"] \in {"echo", "erase"} /\ pc'["user"] = "getc" /\ UNCHANGED <<buf, pos>>
           \/ pc["user"] = "nul" /\ pc'["user"] = "echo" /\ Typing' = Typing
    PROVE  UserInv'
<1>1. InputInv'
  BY DEF UserInv, InputInv, keys
<1>2. UNCHANGED <<buf, pos>> => Typing' = Typing /\ TypedText' = TypedText
  BY DEF Typing, TypedText, StrLen
<1>3. pos' = 0 => Typing' = <<>>
  BY DEF Typing
<1>4. SaidInv'
  BY <1>2, <1>3 DEF UserInv, InputInv, SaidInv, Makes, keys
<1>5. OpenInv'
  BY DEF UserInv, OpenInv
<1> QED
  BY <1>1, <1>4, <1>5 DEF UserInv

\* The string in buf is the line so far, but for the moment between two stores.
LEMMA TypedIsTyping ==
    ASSUME ClientInv, StringInv, pc["user"] # "nul"
    PROVE  TypedText = Typing /\ Typing \in Seq(Letters) /\ Len(Typing) = pos
<1>1. EditorTypeOK /\ buf[MAXLINE - 1] = Nul /\ pos \in Nat
  BY SizeAssumption DEF ClientInv, ClientTypeOK, EndsInBuf, EditorTypeOK, Index
<1>2. StrLen \in Index /\ buf[StrLen] = Nul /\ \A i \in 0 .. StrLen - 1 : buf[i] # Nul
  BY <1>1, StringInBuf
<1>3. pos \in Index /\ buf[pos] = Nul /\ \A i \in 0 .. pos - 1 : buf[i] # Nul
  BY <1>1 DEF StringInv, EditorTypeOK
<1>4. pos = StrLen
  BY <1>2, <1>3, SizeAssumption DEF Index
<1>5. TypedText = Typing
  BY <1>4 DEF TypedText, Typing
<1>6. TypedText \in Seq(Letters)
  BY <1>1, StringInBuf
<1> QED
  BY <1>1, <1>5, <1>6 DEF Typing

\* What a key does to the line of ChatUser, and that the editor does the same: the
\* four branches of simpio_get_char.
LEMMA PressedKey ==
    ASSUME NEW typing \in Seq(KeySet), NEW k \in KeySet, NEW l \in Seq(Letters), NEW s,
           Entry(typing) = [line |-> l, lines |-> s]
    PROVE  /\ k \in Letters /\ Len(l) < MAXLINE - 1 =>
                Entry(Append(typing, k)) = [line |-> Append(l, k), lines |-> s]
           /\ k = "back" /\ l # <<>> => Entry(Append(typing, k)) = [line |-> Front(l), lines |-> s]
           /\ k \in {"enter", "eot"} /\ l # <<>> =>
                Entry(Append(typing, k)) = [line |-> <<>>, lines |-> Append(s, l)]
           /\ /\ k \in Letters => ~(Len(l) < MAXLINE - 1)
              /\ k \in {"back", "enter", "eot"} => l = <<>>
              => Entry(Append(typing, k)) = [line |-> l, lines |-> s]
<1> DEFINE e == Entry(typing)
<1>0. e = [line |-> l, lines |-> s] /\ Entry(Append(typing, k)) = User1!Pressed(e, k)
  BY EntryOfMore
<1> HIDE DEF e
<1>1. e.line = l /\ e.lines = s
  BY <1>0
<1>2. \A x : [e EXCEPT !.line = x] = [line |-> x, lines |-> s]
  BY <1>0
<1>3. CASE k \in Letters
  <2>1. k \notin {"back", "enter", "eot", "eof"}
    BY <1>3, KeysAssumption
  <2>2. User1!Pressed(e, k) = IF Len(e.line) < MAXLINE - 1
                              THEN [e EXCEPT !.line = Append(@, k)] ELSE e
    BY <1>3, <2>1 DEF User1!Pressed
  <2> QED
    BY <1>0, <1>1, <1>2, <1>3, <2>1, <2>2
<1>4. CASE k = "back"
  <2>1. k \notin Letters
    BY <1>4, KeysAssumption
  <2>2. User1!Pressed(e, k) = IF e.line = <<>> THEN e ELSE [e EXCEPT !.line = User1!Front(@)]
    BY <1>4, <2>1 DEF User1!Pressed
  <2>3. User1!Front(l) = Front(l)
    BY DEF User1!Front, Front
  <2> QED
    BY <1>0, <1>1, <1>2, <1>4, <2>1, <2>2, <2>3
<1>5. CASE k \in {"enter", "eot", "eof"}
  <2>1. k \notin Letters
    BY <1>5, KeysAssumption
  <2>2. User1!Pressed(e, k) = IF e.line # <<>> /\ k \in {"enter", "eot"}
                              THEN [line |-> <<>>, lines |-> Append(e.lines, e.line)] ELSE e
    BY <1>5, <2>1 DEF User1!Pressed
  <2> QED
    BY <1>0, <1>1, <1>5, <2>1, <2>2
<1> QED
  BY <1>3, <1>4, <1>5 DEF KeySet

\* One key: the editor and ChatUser agree on the line and on the end of the input.
LEMMA UserKey ==
    ASSUME ClientInv, CancelInv, EchoInv, UserInv, GetChar
    PROVE  UserInv' /\ \E k \in Letters \cup User1!Controls : User1!Press(k)
<1> USE DEF Run, Go, Threads, Printers
<1> USE SizeAssumption
<1>t. /\ ThreadTypeOK /\ EditorTypeOK /\ ServerTypeOK /\ pos \in Index /\ pos \in Nat
      /\ typed \in Seq(KeySet) /\ said \in Seq(Seq(Letters))
  BY DEF ClientInv, ClientTypeOK, EditorTypeOK, ServerTypeOK, Index
<1>0. /\ pc["user"] = "getc" /\ Alive
      /\ UNCHANGED <<said, departed, told, opened, linked>> /\ pc'["main"] = pc["main"]
  BY <1>t DEF GetChar, server, hearing, ThreadTypeOK
<1>1. PICK k \in KeySet :
        /\ key' = k /\ typed' = Append(typed, k) /\ end_of_input' = Ends(k)
        /\ \/ Completes(k) /\ Complete /\ Edit /\ Go("user", "send")
           \/ Erases(k) /\ Erase /\ Edit /\ Go("user", "erase")
           \/ Adds(k) /\ Store(k) /\ Edit /\ Go("user", "nul")
           \/ /\ ~Completes(k) /\ ~Erases(k) /\ ~Adds(k)
              /\ Go("user", IF Ends(k) THEN "copy" ELSE "getc")
              /\ UNCHANGED <<buf, pos, line_ready, raced>>
  BY DEF GetChar
<1>2. /\ TypedText = Typing /\ Typing \in Seq(Letters) /\ Len(Typing) = pos
      /\ Makes(Typing, said)
  BY <1>0, TypedIsTyping DEF EchoInv, UserInv, SaidInv
<1>s. PICK s : Entry(typed) = [line |-> Typing, lines |-> s] /\ (linked => s = said)
  BY <1>2 DEF Makes
<1>m. \A l, x, y : Entry(typed') = [line |-> l, lines |-> x] /\ (linked => x = y) =>
        Entry(typed') = [line |-> l, lines |-> IF linked THEN y ELSE Entry(typed').lines]
  OBVIOUS
<1>p. /\ k \in Letters /\ Len(Typing) < MAXLINE - 1 =>
           Entry(typed') = [line |-> Append(Typing, k), lines |-> s]
      /\ k = "back" /\ Typing # <<>> =>
           Entry(typed') = [line |-> Front(Typing), lines |-> s]
      /\ k \in {"enter", "eot"} /\ Typing # <<>> =>
           Entry(typed') = [line |-> <<>>, lines |-> Append(s, Typing)]
      /\ /\ k \in Letters => ~(Len(Typing) < MAXLINE - 1)
         /\ k \in {"back", "enter", "eot"} => Typing = <<>>
         => Entry(typed') = [line |-> Typing, lines |-> s]
  BY <1>1, <1>2, <1>s, <1>t, PressedKey
<1>4. typed' # <<>> /\ User1!Over(typed') = Ends(k)
  BY <1>1, <1>t DEF User1!Over, User1!Last, Ends
<1>5. \E c \in Letters \cup User1!Controls : User1!Press(c)
  <2>1. ~User1!Over(typed) /\ ~departed /\ pc["main"] # "ended"
    BY <1>0 DEF UserInv, InputInv, CancelInv, Alive
  <2>2. k \in Letters \cup User1!Controls
    BY DEF KeySet, User1!Controls
  <2> QED
    BY <1>0, <1>1, <2>1, <2>2 DEF User1!Press
<1>6. OpenInv'
  BY <1>0 DEF UserInv, OpenInv
<1>7. Typing = <<>> <=> pos = 0
  BY <1>2, <1>t
<1>8. CASE Completes(k) /\ Complete /\ Go("user", "send")
  <2>1. pc'["user"] = "send" /\ buf' = buf /\ pos' = pos
    BY <1>0, <1>8, <1>t DEF Complete, ThreadTypeOK, EditorTypeOK, EchoInv, StringInv
  <2>2. k \notin Letters /\ k # "back" /\ k \in {"enter", "eot"} /\ Typing # <<>>
    BY <1>7, <1>8, KeysAssumption DEF Completes
  <2>3. Entry(typed') = [line |-> <<>>, lines |-> Append(s, Typing)]
    BY <1>p, <2>2
  <2>4. TypedText' = Typing
    BY <1>2, <2>1 DEF TypedText, StrLen
  <2>5. SaidInv'
    BY <1>0, <1>s, <1>m, <2>1, <2>3, <2>4 DEF SaidInv, Makes
  <2> QED
    BY <1>1, <1>4, <1>5, <1>6, <2>1, <2>5 DEF UserInv, InputInv
<1>9. CASE Erases(k) /\ Erase /\ Go("user", "erase")
  <2>1. /\ pc'["user"] = "erase" /\ pos > 0 /\ pos' = pos - 1
        /\ buf' = [buf EXCEPT ![pos - 1] = Nul] /\ k = "back"
    BY <1>9, <1>t DEF Erase, Erases, ThreadTypeOK
  <2>2. k \notin Letters /\ Typing # <<>> /\ ~Ends(k)
    BY <1>7, <2>1, KeysAssumption DEF Ends
  <2>3. Entry(typed') = [line |-> Front(Typing), lines |-> s]
    BY <1>p, <2>1, <2>2
  <2>4. Typing' = Front(Typing)
    <3>1. Front(Typing) = [i \in 1 .. pos - 1 |-> Typing[i]]
      BY <1>2, <1>t, <2>1 DEF Front
    <3>2. \A i \in 1 .. pos - 1 : Typing[i] = buf[i - 1] /\ buf'[i - 1] = buf[i - 1]
      BY <1>t, <2>1 DEF Typing, EditorTypeOK, Index
    <3>3. Typing' = [i \in 1 .. pos - 1 |-> buf'[i - 1]]
      BY <2>1 DEF Typing
    <3> QED
      BY <3>1, <3>2, <3>3
  <2>5. SaidInv'
    BY <1>0, <1>s, <1>m, <2>1, <2>3, <2>4 DEF SaidInv, Makes
  <2> QED
    BY <1>1, <1>4, <1>5, <1>6, <2>1, <2>2, <2>5 DEF UserInv, InputInv
<1>10. CASE Adds(k) /\ Store(k) /\ Go("user", "nul")
  <2>1. /\ pc'["user"] = "nul" /\ pos' = pos + 1 /\ buf' = [buf EXCEPT ![pos] = k]
        /\ k \in Letters /\ pos < MAXLINE - 1
    BY <1>10, <1>t DEF Adds, Store, ThreadTypeOK
  <2>2. ~Ends(k)
    BY <2>1, KeysAssumption DEF Ends
  <2>a. Len(Typing) < MAXLINE - 1
    BY <1>2, <2>1
  <2>3. Entry(typed') = [line |-> Append(Typing, k), lines |-> s]
    BY <1>p, <2>1, <2>a
  <2>4. Typing' = Append(Typing, k)
    <3>1. Typing' = [i \in 1 .. pos + 1 |-> buf'[i - 1]]
      BY <2>1 DEF Typing
    <3>2. \A i \in 1 .. pos : buf'[i - 1] = Typing[i]
      BY <1>t, <2>1 DEF Typing, EditorTypeOK, Index
    <3>3. buf'[pos] = k
      BY <1>t, <2>1 DEF EditorTypeOK
    <3>4. /\ Append(Typing, k) \in Seq(Letters) /\ Len(Append(Typing, k)) = pos + 1
          /\ \A i \in 1 .. pos : Append(Typing, k)[i] = Typing[i]
          /\ Append(Typing, k)[pos + 1] = k
      BY <1>2, <1>t, <2>1
    <3>5. \A i \in 1 .. pos + 1 : buf'[i - 1] = Append(Typing, k)[i]
      <4> TAKE i \in 1 .. pos + 1
      <4>1. CASE i \in 1 .. pos
        BY <3>2, <3>4, <4>1
      <4>2. CASE i = pos + 1
        <5>1. i - 1 = pos
          BY <1>t, <4>2
        <5> QED
          BY <3>3, <3>4, <4>2, <5>1
      <4>3. i \in 1 .. pos \/ i = pos + 1
        BY <1>t
      <4> QED
        BY <4>1, <4>2, <4>3
    <3>6. Append(Typing, k) = [i \in 1 .. pos + 1 |-> Append(Typing, k)[i]]
      <4> DEFINE a == Append(Typing, k)
      <4> HIDE DEF a
      <4>1. a \in Seq(Letters) /\ Len(a) = pos + 1
        BY <3>4 DEF a
      <4>2. a = [i \in 1 .. Len(a) |-> a[i]]
        BY <4>1
      <4> QED
        BY <4>1, <4>2 DEF a
    <3> QED
      BY <3>1, <3>5, <3>6
  <2>5. SaidInv'
    BY <1>0, <1>s, <1>m, <2>1, <2>3, <2>4 DEF SaidInv, Makes
  <2> QED
    BY <1>1, <1>4, <1>5, <1>6, <2>1, <2>2, <2>5 DEF UserInv, InputInv
<1>11. CASE /\ ~Completes(k) /\ ~Erases(k) /\ ~Adds(k) /\ UNCHANGED <<buf, pos>>
            /\ Go("user", IF Ends(k) THEN "copy" ELSE "getc")
  <2>1. pc'["user"] = (IF Ends(k) THEN "copy" ELSE "getc") /\ Typing' = Typing
    BY <1>11, <1>t DEF ThreadTypeOK, Typing
  <2>2. /\ k \in Letters => ~(Len(Typing) < MAXLINE - 1)
        /\ k \in {"back", "enter", "eot"} => Typing = <<>>
    BY <1>2, <1>7, <1>11, <1>t DEF Completes, Erases, Adds
  <2>3. Entry(typed') = [line |-> Typing, lines |-> s]
    BY <1>p, <2>2
  <2>4. SaidInv'
    BY <1>0, <1>1, <1>s, <1>m, <2>1, <2>3 DEF SaidInv, Makes
  <2> QED
    BY <1>1, <1>4, <1>5, <1>6, <2>1, <2>4 DEF UserInv, InputInv
<1> QED
  BY <1>1, <1>8, <1>9, <1>10, <1>11

\* main: the FIFOs may fail to open before anything is typed, and main ends only for
\* a reason.
LEMMA UserMain ==
    ASSUME ClientInv, CancelInv, UserInv, Main
    PROVE  UserInv' /\ (User1!Fail \/ User1!End \/ UNCHANGED User1!vars)
<1> USE DEF Run, Go, Threads, Printers
<1>t. ThreadTypeOK /\ FlagTypeOK
  BY DEF ClientInv, ClientTypeOK
<1>1. CASE Setup
  <2>1. /\ pc["main"] = "setup" /\ pc["user"] = "none" /\ pc'["main"] = "create"
        /\ pc'["user"] = "none" /\ ~end_of_input' /\ UNCHANGED <<typed, said, departed, told>>
    BY <1>1, <1>t DEF Setup, simpio_reset, CancelInv, ThreadTypeOK, server, keys
  <2>2. typed = <<>> /\ ~end_of_input /\ opened /\ linked /\ Entry(typed) = [line |-> <<>>, lines |-> said]
    BY <2>1 DEF UserInv, InputInv, SaidInv, Makes, OpenInv
  <2>3. end_of_input' = end_of_input
    BY <1>1, <2>2, <1>t DEF FlagTypeOK, Setup, simpio_reset
  <2>4. UserInv'
    BY <2>1, <2>2, <2>3 DEF UserInv, InputInv, SaidInv, Makes, OpenInv
  <2>5. UNCHANGED <<typed, said, departed, told, pc["main"] = "ended">>
    BY <2>1
  <2>6. opened' \in {opened, FALSE} /\ linked' \in {linked, FALSE}
    <3>1. opened' \in BOOLEAN /\ opened \in BOOLEAN /\ linked' \in BOOLEAN /\ linked \in BOOLEAN
      BY <1>1, <1>t, Zenon DEF Setup, FlagTypeOK
    <3> QED
      BY <2>2, <3>1
  <2> QED
    BY <2>2, <2>4, <2>5, <2>6 DEF User1!Fail
<1>2. CASE CreateUser \/ CreateBackground \/ JoinUser
  <2>1. /\ UNCHANGED <<keys, said, departed, told, opened, linked, end_of_input, buf, pos>>
        /\ pc["main"] \in {"create", "create2", "join"}
        /\ pc'["main"] \in {"create2", "join", "join2"}
        /\ pc'["user"] = pc["user"] \/ (pc["user"] = "none" /\ pc'["user"] = "reset")
    <3>1. CASE CreateUser
      BY <3>1, <1>t DEF CreateUser, CancelInv, ThreadTypeOK, server, hearing, simpio
    <3>2. CASE CreateBackground
      BY <3>2, <1>t DEF CreateBackground, ThreadTypeOK, server, hearing, simpio
    <3>3. CASE JoinUser
      BY <3>3, <1>t DEF JoinUser, ThreadTypeOK, server, hearing, simpio
    <3> QED
      BY <1>2, <3>1, <3>2, <3>3
  <2>2. UserInv'
    BY <2>1, UserQuiet
  <2> QED
    BY <2>1, <2>2 DEF User1!vars, keys
<1>3. CASE JoinBackground
  <2>1. /\ UNCHANGED <<keys, said, departed, told, opened, linked, end_of_input, buf, pos>>
        /\ pc["main"] = "join2" /\ pc'["main"] = "ended" /\ pc'["user"] = pc["user"]
    BY <1>3, <1>t DEF JoinBackground, ThreadTypeOK, server, hearing, simpio
  <2>2. UserInv'
    BY <2>1, UserQuiet
  <2>3. departed \/ told \/ ~opened \/ (~linked /\ User1!Over(typed))
    BY <2>1 DEF CancelInv, UserInv, InputInv
  <2> QED
    BY <2>1, <2>2, <2>3 DEF User1!End, keys
<1> QED
  BY <1>1, <1>2, <1>3 DEF Main

\* The steps of the threads that send nothing and hear nothing of a shutdown: none
\* of them is seen from outside, whatever they cancel.
LEMMA UserThreads ==
    ASSUME ClientInv, CancelInv, EchoInv, UserInv,
           \/ Reset \/ Copy("user") \/ UserPrint \/ MarkEnd \/ Echo
           \/ CancelBackground \/ ObeyCancel("user")
           \/ Background \/ Drain
    PROVE  UserInv' /\ UNCHANGED User1!vars
<1> USE DEF Run, Call, Go, Threads, Printers
<1>t. /\ ThreadTypeOK /\ FlagTypeOK /\ EditorTypeOK /\ pos \in Nat /\ MAXLINE \in Nat
      /\ StringInv /\ PromptInv
  BY SizeAssumption DEF ClientInv, ClientTypeOK, EditorTypeOK, Index, EchoInv
<1>s. pc["main"] = "setup" => pc["user"] = "none" /\ pc["bg"] = "none" /\ cancelled = {}
  BY DEF CancelInv
<1>1. CASE Reset
  <2>1. /\ UNCHANGED <<keys, said, departed, told, opened, linked>> /\ ~end_of_input'
        /\ pc["user"] = "reset" /\ pc'["user"] = "copy" /\ pc'["main"] = pc["main"]
    BY <1>1, <1>t DEF Reset, simpio_reset, ThreadTypeOK, server, hearing
  <2>2. end_of_input' = end_of_input
    BY <1>1, <1>t, <2>1 DEF UserInv, InputInv, FlagTypeOK, Reset, simpio_reset
  <2>3. UserInv'
    BY <1>s, <2>1, <2>2, UserQuiet
  <2> QED
    BY <2>1, <2>3 DEF User1!vars, keys
<1>2. CASE Copy("user")
  <2>1. /\ UNCHANGED <<keys, said, departed, told, opened, linked, end_of_input, buf, pos>>
        /\ pc["user"] = "copy" /\ pc'["user"] \in {"copy", "write"} /\ pc'["main"] = pc["main"]
    BY <1>2, <1>t DEF Copy, ThreadTypeOK, server, hearing, simpio
  <2>2. UserInv'
    BY <1>s, <2>1, UserQuiet
  <2> QED
    BY <2>1, <2>2 DEF User1!vars, keys
<1>3. CASE UserPrint
  <2>1. /\ UNCHANGED <<keys, said, departed, told, opened, linked, end_of_input, buf, pos>>
        /\ pc["user"] = "write" /\ pc'["main"] = pc["main"]
        /\ pc'["user"] = IF end_of_input THEN "cancel" ELSE "getc"
    BY <1>3, <1>t DEF UserPrint, ThreadTypeOK, server, hearing, simpio
  <2>2. ~end_of_input => pos' = 0
    BY <1>t, <2>1 DEF PromptInv
  <2>3. UserInv'
    BY <1>s, <2>1, <2>2, UserQuiet
  <2> QED
    BY <2>1, <2>3 DEF User1!vars, keys
<1>4. CASE MarkEnd
  <2>1. /\ UNCHANGED <<keys, said, departed, told, opened, linked, end_of_input, pos>>
        /\ buf' = [buf EXCEPT ![pos] = Nul]
        /\ pc["user"] = "nul" /\ pc'["user"] = "echo" /\ pc'["main"] = pc["main"]
    BY <1>4, <1>t DEF MarkEnd, Terminate, ThreadTypeOK, server, hearing
  <2>2. \A i \in 1 .. pos : buf'[i - 1] = buf[i - 1]
    BY <1>t, <2>1 DEF EditorTypeOK, Index
  <2>3. Typing' = Typing
    BY <2>1, <2>2 DEF Typing
  <2>4. UserInv'
    BY <1>s, <2>1, <2>3, UserQuiet
  <2> QED
    BY <2>1, <2>4 DEF User1!vars, keys
<1>5. CASE Echo
  <2>1. /\ UNCHANGED <<keys, said, departed, told, opened, linked, end_of_input, buf, pos>>
        /\ pc["user"] \in {"echo", "erase"} /\ pc'["user"] = "getc" /\ pc'["main"] = pc["main"]
    BY <1>5, <1>t DEF Echo, ThreadTypeOK, server, hearing, simpio
  <2>2. UserInv'
    BY <1>s, <2>1, UserQuiet
  <2> QED
    BY <2>1, <2>2 DEF User1!vars, keys
<1>6. CASE CancelBackground
  <2>1. /\ UNCHANGED <<keys, said, departed, told, opened, linked, end_of_input, buf, pos>>
        /\ pc["user"] = "cancel" /\ pc'["user"] \in {"cancel", "depart"}
        /\ pc'["main"] = pc["main"] \/ pc'["main"] = "crashed"
        /\ Alive
    BY <1>6, <1>t DEF CancelBackground, Cancel, ThreadTypeOK, server, hearing, simpio
  <2>2. UserInv'
    BY <1>s, <2>1, UserQuiet
  <2> QED
    BY <2>1, <2>2 DEF User1!vars, keys, Alive
<1>7. CASE ObeyCancel("user")
  <2>1. /\ UNCHANGED <<keys, said, departed, told, opened, linked, end_of_input, buf, pos>>
        /\ pc'["user"] = "over" /\ pc'["main"] = pc["main"]
    BY <1>7, <1>t DEF ObeyCancel, ThreadTypeOK, server, hearing, simpio
  <2>2. UserInv'
    BY <1>s, <2>1, UserQuiet
  <2> QED
    BY <2>1, <2>2 DEF User1!vars, keys
<1>8. CASE Background \/ Drain
  <2>1. /\ UNCHANGED <<keys, said, departed, told, opened, linked, end_of_input, buf, pos>>
        /\ pc'["user"] = pc["user"]
        /\ pc'["main"] = pc["main"] \/ (Alive /\ pc'["main"] = "crashed")
    BY <1>8, <1>t DEF Background, Copy, BgPrint, ReadFails, CancelUser, Cancel, ObeyCancel,
       Drain, ThreadTypeOK, server, hearing, simpio
  <2>2. UserInv'
    BY <1>s, <2>1, UserQuiet
  <2> QED
    BY <2>1, <2>2 DEF User1!vars, keys, Alive
<1> QED
  BY <1>1, <1>2, <1>3, <1>4, <1>5, <1>6, <1>7, <1>8

\* SHUTDOWN is heard once, by a client that has not ended.
LEMMA UserRead ==
    ASSUME ClientInv, CancelInv, UserInv, Read
    PROVE  UserInv' /\ (User1!HearShutdown \/ UNCHANGED User1!vars)
<1>t. ThreadTypeOK /\ FlagTypeOK
  BY DEF ClientInv, ClientTypeOK
<1>1. /\ UNCHANGED <<keys, said, departed, opened, linked, end_of_input, buf, pos>>
      /\ pc'["user"] = pc["user"] /\ pc'["main"] = pc["main"] /\ pc["bg"] = "read"
      /\ Alive /\ told' \in BOOLEAN
  BY <1>t DEF Read, Call, Go, ThreadTypeOK, Threads, Printers, server, simpio
<1>2. pc["main"] # "ended" /\ ~told
  BY <1>1 DEF CancelInv, Alive
<1>3. UserInv'
  BY <1>1, UserQuiet
<1>4. CASE told'
  <2>1. told' = TRUE
    BY <1>1, <1>4
  <2> QED
    BY <1>1, <1>2, <1>3, <2>1 DEF User1!HearShutdown, keys
<1>5. CASE ~told'
  <2>1. told' = told
    BY <1>1, <1>2, <1>5, <1>t DEF FlagTypeOK
  <2> QED
    BY <1>1, <1>3, <2>1 DEF User1!vars, keys
<1> QED
  BY <1>4, <1>5

\* A line is said after those before it, and DEPARTED when none is left; nothing is
\* said without a FIFO to write to.
LEMMA UserSays ==
    ASSUME ClientInv, CancelInv, EchoInv, UserInv, Send \/ Depart
    PROVE  UserInv' /\ (User1!Say \/ User1!Depart \/ UNCHANGED User1!vars)
<1> USE DEF Call, Go, Threads, Printers
<1>t. /\ ThreadTypeOK /\ EditorTypeOK /\ said \in Seq(Seq(Letters)) /\ StringInv
      /\ buf[MAXLINE - 1] = Nul
  BY DEF ClientInv, ClientTypeOK, ServerTypeOK, EchoInv, EndsInBuf
<1>l. User1!Lines(typed) = Entry(typed).lines
  BY DEF User1!Lines, Entry, Empty
<1>1. CASE Send
  <2>1. /\ UNCHANGED <<keys, departed, told, opened, linked, end_of_input, buf, pos>>
        /\ pc["user"] = "send" /\ pc'["main"] = pc["main"]
        /\ pc'["user"] = (IF end_of_input THEN "copy" ELSE "reset") /\ Alive
        /\ IF linked THEN said' = Append(said, TypedText) ELSE UNCHANGED said
    BY <1>1, <1>t DEF Send, Written, Lost, server, ThreadTypeOK, hearing, simpio
  <2>2. Entry(typed) = [line |-> <<>>, lines |-> IF linked THEN said' ELSE Entry(typed).lines]
    BY <2>1 DEF UserInv, SaidInv, Makes
  <2>3. UserInv'
    <3>1. InputInv'
      BY <2>1 DEF UserInv, InputInv, keys
    <3>2. SaidInv'
      BY <2>1, <2>2 DEF SaidInv, Makes, keys
    <3>3. OpenInv'
      BY <2>1 DEF UserInv, OpenInv
    <3> QED
      BY <3>1, <3>2, <3>3 DEF UserInv
  <2>4. TypedText \in Seq(Letters)
    BY <1>t, StringInBuf
  <2>5. linked => User1!Lines(typed) = Append(said, TypedText)
    BY <1>l, <2>1, <2>2
  <2>6. /\ Append(said, TypedText) # said
        /\ SubSeq(Append(said, TypedText), 1, Len(said) + 1) = Append(said, TypedText)
    BY <1>t, <2>4
  <2>7. ~departed /\ pc["main"] # "ended"
    BY <2>1 DEF CancelInv, Alive
  <2>8. linked => User1!Say
    BY <2>1, <2>5, <2>6, <2>7 DEF User1!Say, keys
  <2>9. ~linked => UNCHANGED User1!vars
    BY <2>1 DEF User1!vars, keys
  <2> QED
    BY <2>3, <2>8, <2>9
<1>2. CASE Depart
  <2>1. /\ UNCHANGED <<keys, said, told, opened, linked, end_of_input, buf, pos>>
        /\ IF linked THEN departed' = TRUE ELSE UNCHANGED departed
        /\ pc["user"] = "depart" /\ pc'["user"] = "over"
        /\ pc'["main"] = pc["main"] /\ Alive
    BY <1>2, <1>t DEF Depart, Written, Lost, server, ThreadTypeOK, hearing, simpio
  <2>2. UserInv'
    BY <2>1, UserQuiet
  <2>3. User1!Over(typed) /\ (linked => User1!Lines(typed) = said)
    BY <1>l, <2>1 DEF UserInv, InputInv, SaidInv
  <2>4. ~departed /\ pc["main"] # "ended"
    BY <2>1 DEF CancelInv, Alive
  <2>5. linked => User1!Depart
    BY <2>1, <2>3, <2>4 DEF User1!Depart, keys
  <2>6. ~linked => UNCHANGED User1!vars
    BY <2>1 DEF User1!vars, keys
  <2> QED
    BY <2>2, <2>5, <2>6
<1> QED
  BY <1>1, <1>2

\* Every step keeps UserInv and is a step of ChatUser or none that it sees.
LEMMA UserStep ==
    ASSUME ClientInv, CancelInv, EchoInv, UserInv, [Next]_vars
    PROVE  UserInv' /\ [User1!Next]_(User1!vars)
<1>1. CASE UNCHANGED vars
  <2>1. /\ UNCHANGED <<keys, said, departed, told, opened, linked, end_of_input, buf, pos, pc>>
    BY <1>1 DEF vars, server, hearing, simpio
  <2>2. UserInv'
    BY <2>1, UserQuiet
  <2> QED
    BY <2>1, <2>2 DEF User1!vars, keys
<1>2. CASE Main
  BY <1>2, UserMain DEF User1!Next
<1>3. CASE User
  BY <1>3, UserThreads, UserSays DEF User, User1!Next
<1>4. CASE Background \/ Drain
  BY <1>4, UserThreads DEF User1!Next
<1>5. CASE GetChar
  BY <1>5, UserKey DEF User1!Next
<1>6. CASE Read
  BY <1>6, UserRead DEF User1!Next
<1> QED
  BY <1>1, <1>2, <1>3, <1>4, <1>5, <1>6 DEF Next

\* bl_client keeps the promise of ChatUser, for lines of every length, any number of
\* keys and messages and every interleaving of its threads: the server is sent the
\* lines that the keys make, each once and in their order, DEPARTED after all of
\* them and after the end of the input, and main returns only after DEPARTED or
\* SHUTDOWN, or when it could not open the FIFO it reads.  When it could not open the
\* one it writes, the server is sent nothing, and main may return at the end of input.
THEOREM UserCorrect == Spec => ImplementsUser
<1>1. Init => ClientInv /\ CancelInv /\ EchoInv /\ UserInv
  BY InvInit, EchoInit, UserInit DEF Init, CancelInv, Threads, Printers
<1>2. ClientInv /\ CancelInv /\ EchoInv /\ UserInv /\ [Next]_vars =>
        (ClientInv /\ CancelInv /\ EchoInv /\ UserInv)'
  BY InvStep, CancelStep, EchoStep, UserStep
<1>3. ClientInv /\ CancelInv /\ EchoInv /\ UserInv /\ [Next]_vars => [User1!Next]_(User1!vars)
  BY UserStep
<1>4. Init => User1!Init
  BY DEF Init, User1!Init, Threads, Printers
<1> QED
  BY <1>1, <1>2, <1>3, <1>4, PTL DEF Spec, ImplementsUser, User1!Spec
=============================================================================
