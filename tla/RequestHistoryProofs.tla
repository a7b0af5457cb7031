------------------------ MODULE RequestHistoryProofs ------------------------
(***************************************************************************)
(* The history that is sent upstream carries every message, alternates,    *)
(* and keeps tool results behind their calls, for every set of shapes a    *)
(* client may send and every length of the conversation.                   *)
(***************************************************************************)
EXTENDS RequestHistory, TLAPS

-----------------------------------------------------------------------------
(* Appending to a history.                                                  *)
LEMMA AppendOne ==
    ASSUME NEW S, NEW h \in Seq(S), NEW e \in S
    PROVE  /\ h \o <<e>> \in Seq(S)
           /\ Len(h \o <<e>>) = Len(h) + 1
           /\ DOMAIN (h \o <<e>>) = DOMAIN h \cup {Len(h) + 1}
           /\ \A k \in DOMAIN h : (h \o <<e>>)[k] = h[k]
           /\ (h \o <<e>>)[Len(h) + 1] = e
  OBVIOUS

LEMMA AppendNone == ASSUME NEW S, NEW h \in Seq(S) PROVE h \o <<>> = h
  OBVIOUS

(***************************************************************************)
(* What a history h says of the messages m before n, of which b are in the *)
(* buffer.  These are the properties with the variables as parameters.     *)
(***************************************************************************)
Speaks(r) == r \in {"user", "assistant"}

\* Every message is in an entry or in the buffer.
AllThere(m, h, b, n) ==
    (UNION {h[k].from : k \in DOMAIN h}) \cup b = {j \in 1 .. n - 1 : Speaks(m[j].role)}

\* The order of the conversation is kept.
InOrder(h) ==
    \A k, l \in DOMAIN h : k < l => \A x \in h[k].from, y \in h[l].from : x < y

\* What an entry has comes from its messages.
Truthful(m, h, b) ==
    \A k \in DOMAIN h :
       /\ h[k].from = {} => h[k].uses = {} /\ h[k].results = {}
       /\ h[k].role = "user" => h[k].uses = {}
       /\ h[k].role = "assistant" => h[k].results = {}
       /\ h[k].results \subseteq UNION {m[x].results : x \in h[k].from}
       /\ \A x \in h[k].from :
             /\ m[x].role = h[k].role
             /\ \A y \in b : x < y
             /\ h[k].role = "user" => m[x].results \subseteq h[k].results
             /\ h[k].role = "assistant" => h[k].uses = ToolUses(m[x])

\* User and assistant alternate.
Alternates(h) ==
    /\ h # <<>> => h[Len(h)].role = "assistant"
    /\ \A k \in 1 .. Len(h) - 1 : h[k].role = "user" => h[k + 1].role = "assistant"

\* An assistant entry answers the user messages before it.
Answers(m, h) ==
    \A k \in DOMAIN h : \A x \in h[k].from :
       h[k].role = "assistant" =>
          \/ k > 1 /\ h[k - 1].role = "user"
          \/ \A j \in 1 .. x - 1 : m[j].role = "user" =>
                k > 1 /\ \E y \in h[k - 1].from : j < y

\* Entries without messages come first; last, only for messages left over.
EmptyFirst(h, k) == \A l \in 1 .. k : h[l].from = {}

\* The buffer holds user messages that no assistant message has followed.
Waiting(m, b, n) ==
    \A j \in b : /\ m[j].role = "user"
                 /\ \A x \in j + 1 .. n - 1 : m[x].role # "assistant"

PhaseInv ==
    /\ phase \in {"received", "checked"} => history = <<>> /\ userMessagesBuffer = {} /\ i = 1
    /\ phase \in {"validating", "sent"} => i >= N /\ userMessagesBuffer = {}
    /\ phase \in {"history", "validating", "sent"} => N > 0
    /\ phase \in {"history", "validating", "sent"} =>
          current.results = IF messages[N].role = "user" THEN messages[N].results ELSE {}

\* Entries without messages come first.
EmptyOnlyFirst(h) == \A k \in DOMAIN h : h[k].from = {} => EmptyFirst(h, k)

ShapeInv ==
    \A k \in DOMAIN history : history[k].from = {} =>
        \/ EmptyFirst(history, k)
        \/ phase # "history" /\ Split /\ k = Len(history)

IInv ==
    /\ TypeOK
    /\ PhaseInv
    /\ AllThere(messages, history, userMessagesBuffer, i)
    /\ InOrder(history)
    /\ Truthful(messages, history, userMessagesBuffer)
    /\ Alternates(history)
    /\ Answers(messages, history)
    /\ Waiting(messages, userMessagesBuffer, i)
    /\ ShapeInv

LEMMA InvariantImplies == IInv => TypeOK /\ Carried /\ Paired
  BY DEF IInv, AllThere, InOrder, Truthful, Alternates, Answers, Speaks, Carried, Paired

-----------------------------------------------------------------------------
(* The three entries that are appended.                                     *)
NoTwoUsers(h) == \A k \in 1 .. Len(h) - 1 : h[k].role = "user" => h[k + 1].role = "assistant"

Kept(m, h, b, n) == AllThere(m, h, b, n) /\ InOrder(h) /\ Truthful(m, h, b) /\ Answers(m, h)

\* The buffer becomes an entry.
LEMMA AddBuffered ==
    ASSUME NEW S, NEW h \in Seq(S), NEW e \in S, NEW m, NEW n \in Nat, NEW b,
           Kept(m, h, b, n), Alternates(h), Waiting(m, b, n),
           b # {}, e.from = b, e.role = "user", e.uses = {},
           e.results = UNION {m[x].results : x \in b}
    PROVE  /\ Kept(m, h \o <<e>>, {}, n)
           /\ NoTwoUsers(h \o <<e>>)
<1> DEFINE g == h \o <<e>>
<1>1. /\ Len(g) = Len(h) + 1 /\ Len(h) \in Nat
      /\ DOMAIN h = 1 .. Len(h) /\ DOMAIN g = 1 .. Len(h) + 1
      /\ \A k \in DOMAIN h : g[k] = h[k]
      /\ g[Len(h) + 1] = e
      /\ Len(h) > 0 => h # <<>>
  OBVIOUS
<1> HIDE DEF g
<1>2. AllThere(m, g, {}, n)
  <2>1. (UNION {g[k].from : k \in DOMAIN g}) = (UNION {h[k].from : k \in DOMAIN h}) \cup b
    BY <1>1
  <2> QED
    BY <2>1 DEF Kept, AllThere
<1>3. InOrder(g)
  <2> SUFFICES ASSUME NEW k \in DOMAIN g, NEW l \in DOMAIN g, k < l,
                      NEW x \in g[k].from, NEW y \in g[l].from
               PROVE  x < y
    BY DEF InOrder
  <2>1. CASE l \in DOMAIN h
    BY <1>1, <2>1 DEF Kept, InOrder
  <2>2. CASE l = Len(h) + 1
    BY <1>1, <2>2 DEF Kept, Truthful
  <2> QED
    BY <1>1, <2>1, <2>2
<1>4. Truthful(m, g, {})
  <2> SUFFICES ASSUME NEW k \in DOMAIN g
               PROVE  /\ g[k].from = {} => g[k].uses = {} /\ g[k].results = {}
                      /\ g[k].role = "user" => g[k].uses = {}
                      /\ g[k].role = "assistant" => g[k].results = {}
                      /\ g[k].results \subseteq UNION {m[x].results : x \in g[k].from}
                      /\ \A x \in g[k].from :
                            /\ m[x].role = g[k].role
                            /\ g[k].role = "user" => m[x].results \subseteq g[k].results
                            /\ g[k].role = "assistant" => g[k].uses = ToolUses(m[x])
    BY DEF Truthful
  <2>1. CASE k \in DOMAIN h
    BY <1>1, <2>1 DEF Kept, Truthful
  <2>2. CASE k = Len(h) + 1
    BY <1>1, <2>2 DEF Waiting
  <2> QED
    BY <1>1, <2>1, <2>2
<1>5. Answers(m, g)
  <2> SUFFICES ASSUME NEW k \in DOMAIN g, NEW x \in g[k].from, g[k].role = "assistant"
               PROVE  \/ k > 1 /\ g[k - 1].role = "user"
                      \/ \A j \in 1 .. x - 1 : m[j].role = "user" =>
                            k > 1 /\ \E y \in g[k - 1].from : j < y
    BY DEF Answers
  <2>1. k \in DOMAIN h
    BY <1>1
  <2>2. k > 1 => g[k - 1] = h[k - 1]
    BY <1>1, <2>1
  <2> QED
    BY <1>1, <2>1, <2>2 DEF Kept, Answers
<1>6. NoTwoUsers(g)
  <2> SUFFICES ASSUME NEW k \in 1 .. Len(g) - 1, g[k].role = "user"
               PROVE  g[k + 1].role = "assistant"
    BY DEF NoTwoUsers
  <2>1. CASE k < Len(h)
    BY <1>1, <2>1 DEF Alternates
  <2>2. CASE k = Len(h)
    BY <1>1, <2>2 DEF Alternates
  <2>3. Len(g) - 1 = Len(h) /\ Len(h) \in Nat
    BY <1>1
  <2>4. k \in 1 .. Len(h)
    BY <2>3
  <2>5. k < Len(h) \/ k = Len(h)
    BY <2>3, <2>4
  <2> QED
    BY <2>1, <2>2, <2>5
<1> QED
  BY <1>2, <1>3, <1>4, <1>5, <1>6 DEF Kept, g

\* An assistant message becomes an entry.
LEMMA AddAssistant ==
    ASSUME NEW S, NEW h \in Seq(S), NEW e \in S, NEW m, NEW n \in Nat \ {0},
           Kept(m, h, {}, n), NoTwoUsers(h),
           \A k \in DOMAIN h : h[k].role \in {"user", "assistant"},
           h # <<>> => \/ h[Len(h)].role = "user"
                       \/ h[Len(h)].from # {}
                       \/ EmptyFirst(h, Len(h)),
           e.from = {n}, e.role = "assistant", m[n].role = "assistant",
           e.uses = ToolUses(m[n]), e.results = {}
    PROVE  Kept(m, h \o <<e>>, {}, n + 1) /\ Alternates(h \o <<e>>)
<1> DEFINE g == h \o <<e>>
<1>1. /\ Len(g) = Len(h) + 1 /\ Len(h) \in Nat
      /\ DOMAIN h = 1 .. Len(h) /\ DOMAIN g = 1 .. Len(h) + 1
      /\ \A k \in DOMAIN h : g[k] = h[k]
      /\ g[Len(h) + 1] = e
      /\ h # <<>> => Len(h) > 0
  OBVIOUS
<1> HIDE DEF g
<1>2. AllThere(m, g, {}, n + 1)
  <2>1. (UNION {g[k].from : k \in DOMAIN g}) = (UNION {h[k].from : k \in DOMAIN h}) \cup {n}
    BY <1>1
  <2>2. {j \in 1 .. (n + 1) - 1 : Speaks(m[j].role)} = {j \in 1 .. n - 1 : Speaks(m[j].role)} \cup {n}
    BY DEF Speaks
  <2> QED
    BY <2>1, <2>2 DEF Kept, AllThere
<1>3. \A k \in DOMAIN h : \A x \in h[k].from : x \in 1 .. n - 1
  BY DEF Kept, AllThere
<1>4. InOrder(g)
  <2> SUFFICES ASSUME NEW k \in DOMAIN g, NEW l \in DOMAIN g, k < l,
                      NEW x \in g[k].from, NEW y \in g[l].from
               PROVE  x < y
    BY DEF InOrder
  <2>1. CASE l \in DOMAIN h
    BY <1>1, <2>1 DEF Kept, InOrder
  <2>2. CASE l = Len(h) + 1
    BY <1>1, <1>3, <2>2
  <2> QED
    BY <1>1, <2>1, <2>2
<1>5. Truthful(m, g, {})
  <2> SUFFICES ASSUME NEW k \in DOMAIN g
               PROVE  /\ g[k].from = {} => g[k].uses = {} /\ g[k].results = {}
                      /\ g[k].role = "user" => g[k].uses = {}
                      /\ g[k].role = "assistant" => g[k].results = {}
                      /\ g[k].results \subseteq UNION {m[x].results : x \in g[k].from}
                      /\ \A x \in g[k].from :
                            /\ m[x].role = g[k].role
                            /\ g[k].role = "user" => m[x].results \subseteq g[k].results
                            /\ g[k].role = "assistant" => g[k].uses = ToolUses(m[x])
    BY DEF Truthful
  <2>1. CASE k \in DOMAIN h
    BY <1>1, <2>1 DEF Kept, Truthful
  <2>2. CASE k = Len(h) + 1
    BY <1>1, <2>2
  <2> QED
    BY <1>1, <2>1, <2>2
<1>6. Answers(m, g)
  <2> SUFFICES ASSUME NEW k \in DOMAIN g, NEW x \in g[k].from, g[k].role = "assistant",
                      ~(k > 1 /\ g[k - 1].role = "user"),
                      NEW j \in 1 .. x - 1, m[j].role = "user"
               PROVE  k > 1 /\ \E y \in g[k - 1].from : j < y
    BY DEF Answers
  <2>1. CASE k \in DOMAIN h
    <3>1. k > 1 => g[k - 1] = h[k - 1]
      BY <1>1, <2>1
    <3> QED
      BY <1>1, <2>1, <3>1 DEF Kept, Answers
  <2>2. CASE k = Len(h) + 1
    <3>1. x = n
      BY <1>1, <2>2
    <3>2. j \in 1 .. n - 1 /\ Speaks(m[j].role)
      BY <3>1 DEF Speaks
    <3>3. PICK l \in DOMAIN h : j \in h[l].from
      BY <3>2 DEF Kept, AllThere
    <3>4. h # <<>> /\ k > 1 /\ g[k - 1] = h[Len(h)] /\ Len(h) \in DOMAIN h
      BY <1>1, <2>2, <3>3
    <3>5. h[Len(h)].role = "assistant"
      BY <3>4
    <3>6. l < Len(h)
      BY <1>1, <3>3, <3>5 DEF Kept, Truthful
    <3>7. h[Len(h)].from # {}
      BY <1>1, <3>3, <3>4, <3>5 DEF EmptyFirst
    <3>8. PICK y \in h[Len(h)].from : TRUE
      BY <3>7
    <3>9. j < y
      BY <3>3, <3>4, <3>6, <3>8 DEF Kept, InOrder
    <3> QED
      BY <3>4, <3>8, <3>9
  <2> QED
    BY <1>1, <2>1, <2>2
<1>7. Alternates(g)
  <2>1. g # <<>> /\ g[Len(g)].role = "assistant"
    BY <1>1
  <2>2. ASSUME NEW k \in 1 .. Len(g) - 1, g[k].role = "user"
        PROVE  g[k + 1].role = "assistant"
    BY <1>1, <2>2 DEF NoTwoUsers
  <2> QED
    BY <2>1, <2>2 DEF Alternates
<1> QED
  BY <1>2, <1>4, <1>5, <1>6, <1>7 DEF Kept, g

\* The placeholder becomes an entry.
LEMMA AddPlaceholder ==
    ASSUME NEW S, NEW h \in Seq(S), NEW e \in S, NEW m, NEW n \in Nat,
           Kept(m, h, {}, n), NoTwoUsers(h),
           e.from = {}, e.role = "assistant", e.uses = {}, e.results = {}
    PROVE  Kept(m, h \o <<e>>, {}, n) /\ Alternates(h \o <<e>>)
<1> DEFINE g == h \o <<e>>
<1>1. /\ Len(g) = Len(h) + 1 /\ Len(h) \in Nat
      /\ DOMAIN h = 1 .. Len(h) /\ DOMAIN g = 1 .. Len(h) + 1
      /\ \A k \in DOMAIN h : g[k] = h[k]
      /\ g[Len(h) + 1] = e
  OBVIOUS
<1> HIDE DEF g
<1>2. AllThere(m, g, {}, n)
  <2>1. (UNION {g[k].from : k \in DOMAIN g}) = (UNION {h[k].from : k \in DOMAIN h})
    BY <1>1
  <2> QED
    BY <2>1 DEF Kept, AllThere
<1>3. \A k \in DOMAIN g : \A x \in g[k].from : k \in DOMAIN h /\ g[k] = h[k] /\ (k > 1 => g[k - 1] = h[k - 1])
  BY <1>1
<1>4. InOrder(g) /\ Answers(m, g)
  <2>1. InOrder(g)
    BY <1>3 DEF Kept, InOrder
  <2>2. Answers(m, g)
    BY <1>3 DEF Kept, Answers
  <2> QED
    BY <2>1, <2>2
<1>5. Truthful(m, g, {})
  <2> SUFFICES ASSUME NEW k \in DOMAIN g
               PROVE  /\ g[k].from = {} => g[k].uses = {} /\ g[k].results = {}
                      /\ g[k].role = "user" => g[k].uses = {}
                      /\ g[k].role = "assistant" => g[k].results = {}
                      /\ g[k].results \subseteq UNION {m[x].results : x \in g[k].from}
                      /\ \A x \in g[k].from :
                            /\ m[x].role = g[k].role
                            /\ g[k].role = "user" => m[x].results \subseteq g[k].results
                            /\ g[k].role = "assistant" => g[k].uses = ToolUses(m[x])
    BY DEF Truthful
  <2>1. CASE k \in DOMAIN h
    BY <1>1, <2>1 DEF Kept, Truthful
  <2>2. CASE k = Len(h) + 1
    BY <1>1, <2>2
  <2> QED
    BY <1>1, <2>1, <2>2
<1>6. Alternates(g)
  <2>1. g # <<>> /\ g[Len(g)].role = "assistant"
    BY <1>1
  <2>2. ASSUME NEW k \in 1 .. Len(g) - 1, g[k].role = "user"
        PROVE  g[k + 1].role = "assistant"
    BY <1>1, <2>2 DEF NoTwoUsers
  <2> QED
    BY <2>1, <2>2 DEF Alternates
<1> QED
  BY <1>2, <1>4, <1>5, <1>6 DEF Kept, g

LEMMA AddNonEmpty ==
    ASSUME NEW S, NEW h \in Seq(S), NEW e \in S, EmptyOnlyFirst(h), e.from # {}
    PROVE  EmptyOnlyFirst(h \o <<e>>)
<1> DEFINE g == h \o <<e>>
<1>1. /\ DOMAIN h = 1 .. Len(h) /\ DOMAIN g = 1 .. Len(h) + 1 /\ Len(h) \in Nat
      /\ \A k \in DOMAIN h : g[k] = h[k]
      /\ g[Len(h) + 1] = e
  OBVIOUS
<1> HIDE DEF g
<1>2. ASSUME NEW k \in DOMAIN g, g[k].from = {}, NEW l \in 1 .. k PROVE g[l].from = {}
  <2>1. k \in DOMAIN h /\ h[k].from = {}
    BY <1>1, <1>2
  <2>2. l \in DOMAIN h /\ h[l].from = {}
    BY <1>1, <1>2, <2>1 DEF EmptyOnlyFirst, EmptyFirst
  <2> QED
    BY <1>1, <2>2
<1> QED
  BY <1>2 DEF EmptyOnlyFirst, EmptyFirst, g

\* A user message starts to wait.
LEMMA AddWaiting ==
    ASSUME NEW m, NEW h, NEW b, NEW n \in Nat \ {0},
           Kept(m, h, b, n), Waiting(m, b, n), m[n].role = "user"
    PROVE  Kept(m, h, b \cup {n}, n + 1) /\ Waiting(m, b \cup {n}, n + 1)
<1>1. AllThere(m, h, b \cup {n}, n + 1)
  <2>1. {j \in 1 .. (n + 1) - 1 : Speaks(m[j].role)} = {j \in 1 .. n - 1 : Speaks(m[j].role)} \cup {n}
    BY DEF Speaks
  <2> QED
    BY <2>1 DEF Kept, AllThere
<1>2. \A k \in DOMAIN h : \A x \in h[k].from : x < n
  BY DEF Kept, AllThere
<1>3. Truthful(m, h, b \cup {n})
  BY <1>2 DEF Kept, Truthful
<1>4. Waiting(m, b \cup {n}, n + 1)
  BY DEF Waiting
<1> QED
  BY <1>1, <1>3, <1>4 DEF Kept

\* A message of another role changes nothing.
LEMMA PassOver ==
    ASSUME NEW m, NEW h, NEW b, NEW n \in Nat \ {0},
           Kept(m, h, b, n), Waiting(m, b, n), ~Speaks(m[n].role)
    PROVE  Kept(m, h, b, n + 1) /\ Waiting(m, b, n + 1)
<1>1. {j \in 1 .. (n + 1) - 1 : Speaks(m[j].role)} = {j \in 1 .. n - 1 : Speaks(m[j].role)}
  OBVIOUS
<1>2. AllThere(m, h, b, n + 1)
  BY <1>1 DEF Kept, AllThere
<1>3. Waiting(m, b, n + 1)
  BY DEF Waiting, Speaks
<1> QED
  BY <1>2, <1>3 DEF Kept

LEMMA NothingKept ==
    ASSUME NEW m
    PROVE  /\ Kept(m, <<>>, {}, 1) /\ Alternates(<<>>) /\ Waiting(m, {}, 1)
           /\ EmptyOnlyFirst(<<>>)
BY DEF Kept, AllThere, InOrder, Truthful, Answers, Alternates, Waiting, EmptyOnlyFirst

\* The pair that carries the system messages.
LEMMA SystemKept ==
    ASSUME NEW m
    PROVE  LET h == <<SystemEntry, OK>> IN
           Kept(m, h, {}, 1) /\ Alternates(h) /\ EmptyOnlyFirst(h)
<1> DEFINE h == <<SystemEntry, OK>>
<1>1. /\ DOMAIN h = {1, 2} /\ Len(h) = 2
      /\ h[1].from = {} /\ h[1].role = "user" /\ h[1].uses = {} /\ h[1].results = {}
      /\ h[2].from = {} /\ h[2].role = "assistant" /\ h[2].uses = {} /\ h[2].results = {}
  BY DEF SystemEntry, OK, UserMessage, AssistantMessage
<1> HIDE DEF h
<1>2. AllThere(m, h, {}, 1)
  BY <1>1 DEF AllThere
<1>3. InOrder(h) /\ Truthful(m, h, {}) /\ Answers(m, h)
  BY <1>1 DEF InOrder, Truthful, Answers
<1>4. Alternates(h)
  BY <1>1 DEF Alternates
<1>5. EmptyOnlyFirst(h)
  BY <1>1 DEF EmptyOnlyFirst, EmptyFirst
<1> QED
  BY <1>2, <1>3, <1>4, <1>5 DEF Kept, h

-----------------------------------------------------------------------------
(* The entries and the messages have their types.                           *)
LEMMA MessagesTyped ==
    ASSUME TypeOK
    PROVE  N \in Nat /\ \A k \in 1 .. N : messages[k] \in Message
  BY DEF TypeOK, N

LEMMA UserTyped ==
    ASSUME NEW from, NEW texts, NEW images, NEW results,
           from \subseteq 1 .. N, texts \subseteq 0 .. N, images \subseteq 1 .. N,
           results \subseteq ToolIds
    PROVE  UserMessage(from, texts, images, results) \in Entry
  BY DEF UserMessage, Entry

LEMMA AssistantTyped ==
    ASSUME NEW from, NEW texts, NEW uses,
           from \subseteq 1 .. N, texts \subseteq 0 .. N, uses \subseteq ToolIds
    PROVE  AssistantMessage(from, texts, uses) \in Entry
  BY DEF AssistantMessage, Entry

LEMMA MergedTyped ==
    ASSUME TypeOK, NEW b \in SUBSET (1 .. N - 1)
    PROVE  Merged(b) \in Entry
<1>1. N \in Nat /\ \A k \in b : k \in 1 .. N /\ messages[k] \in Message
  BY MessagesTyped
<1>2. (UNION {ToolResults(messages[k]) : k \in b}) \subseteq ToolIds
  BY <1>1 DEF ToolResults, Message
<1> DEFINE readable == {k \in b : HasText(messages[k]) /\ ~Fails(messages[k])}
           results  == UNION {ToolResults(messages[k]) : k \in b}
           texts    == IF results = {} THEN readable ELSE {}
           images   == {k \in readable : messages[k].image = "valid"}
<1>3. b \subseteq 1 .. N /\ readable \subseteq 1 .. N /\ images \subseteq 1 .. N
  BY <1>1
<1>4. texts \subseteq 0 .. N
  BY <1>1, <1>3
<1>5. Merged(b) = UserMessage(b, texts, images, results)
  BY DEF Merged
<1> HIDE DEF readable, results, texts, images
<1>6. results \subseteq ToolIds
  BY <1>2 DEF results
<1> QED
  BY <1>3, <1>4, <1>5, <1>6, UserTyped

LEMMA AssistantEntryTyped ==
    ASSUME TypeOK, NEW k \in 1 .. N
    PROVE  AssistantEntry(k) \in Entry
<1>1. N \in Nat /\ messages[k] \in Message
  BY MessagesTyped
<1>2. ToolUses(messages[k]) \subseteq ToolIds
  BY <1>1 DEF ToolUses, Message
<1>3. {k} \subseteq 1 .. N /\ {k} \subseteq 0 .. N
  BY <1>1
<1> QED
  BY <1>2, <1>3, AssistantTyped DEF AssistantEntry

LEMMA CurrentTyped ==
    ASSUME TypeOK, N > 0
    PROVE  CurrentEntry(messages[N]) \in Entry
<1>1. N \in Nat /\ N \in 1 .. N /\ messages[N] \in Message
  BY MessagesTyped
<1> DEFINE results == IF messages[N].role = "user" THEN ToolResults(messages[N]) ELSE {}
           texts   == IF HasText(messages[N]) /\ results = {} THEN {N} ELSE {}
           images  == IF messages[N].image = "valid" THEN {N} ELSE {}
<1>2. results \subseteq ToolIds
  BY <1>1 DEF ToolResults, Message
<1>3. {N} \subseteq 1 .. N /\ texts \subseteq 0 .. N /\ images \subseteq 1 .. N
  BY <1>1
<1>4. CurrentEntry(messages[N]) = UserMessage({N}, texts, images, results)
  BY DEF CurrentEntry
<1> HIDE DEF results, texts, images
<1> QED
  BY <1>2, <1>3, <1>4, UserTyped

LEMMA PlaceholdersTyped ==
    ASSUME TypeOK
    PROVE  NoEntry \in Entry /\ SystemEntry \in Entry /\ OK \in Entry
<1>1. N \in Nat /\ {Own} \subseteq 0 .. N
  BY MessagesTyped DEF Own
<1> QED
  BY <1>1, UserTyped, AssistantTyped DEF NoEntry, SystemEntry, OK

LEMMA ConvertedTyped ==
    ASSUME NEW m \in Message PROVE Converted(m) \in Message
  BY DEF Converted, Message

-----------------------------------------------------------------------------
(* Every step keeps the invariant.                                          *)
LEMMA InitInv == Init => IInv
<1> SUFFICES ASSUME Init PROVE IInv
  OBVIOUS
<1>1. PICK n \in 0 .. MaxMessages : messages \in [1 .. n -> Shapes]
  BY DEF Init
<1>2. messages \in Seq(Message)
  BY <1>1, HistoryAssumption
<1>3. N \in Nat
  BY <1>2 DEF N
<1>4. NoEntry \in Entry
  BY UserTyped DEF NoEntry
<1>5. TypeOK
  BY <1>2, <1>3, <1>4 DEF Init, TypeOK
<1>6. PhaseInv
  BY DEF Init, PhaseInv
<1> QED
  BY <1>5, <1>6, NothingKept DEF Init, IInv, Kept, ShapeInv

LEMMA RefuseKeeps == IInv /\ Refuse => IInv'
<1> SUFFICES ASSUME IInv, Refuse PROVE IInv'
  OBVIOUS
<1>1. TypeOK'
  BY DEF IInv, TypeOK, Refuse, Entry, N
<1>2. PhaseInv'
  BY DEF PhaseInv, Refuse
<1>3. ShapeInv'
  BY DEF IInv, ShapeInv, Refuse, Split, N, EmptyFirst
<1> QED
  BY <1>1, <1>2, <1>3 DEF IInv, Refuse

\* Before the history is built.
LEMMA StartKeeps ==
    ASSUME IInv, phase = "received", phase' = "checked",
           UNCHANGED <<i, userMessagesBuffer, history, current>>,
           messages' \in Seq(Message), Len(messages') = N, endpoint' = endpoint
    PROVE  IInv'
<1>1. history = <<>> /\ userMessagesBuffer = {} /\ i = 1
  BY DEF IInv, PhaseInv
<1>2. N' = N
  BY DEF N
<1>3. TypeOK'
  BY <1>2 DEF IInv, TypeOK, Entry
<1>4. PhaseInv'
  BY <1>1 DEF PhaseInv
<1> QED
  BY <1>1, <1>3, <1>4, NothingKept DEF IInv, Kept, ShapeInv

LEMMA CheckKeeps == IInv /\ CheckLastMessage => IInv'
  BY StartKeeps, RefuseKeeps DEF CheckLastMessage, IInv, TypeOK, N

LEMMA ConvertKeeps == IInv /\ ConvertOpenAIToAnthropic => IInv'
<1> SUFFICES ASSUME IInv, ConvertOpenAIToAnthropic PROVE IInv'
  OBVIOUS
<1>1. TypeOK
  BY DEF IInv
<1>2. \A k \in 1 .. N : Converted(messages[k]) \in Message
  BY <1>1, MessagesTyped, ConvertedTyped
<1>3. N \in Nat
  BY <1>1, MessagesTyped
<1>4. messages' \in Seq(Message) /\ Len(messages') = N
  BY <1>2, <1>3 DEF ConvertOpenAIToAnthropic
<1> QED
  BY <1>4, StartKeeps DEF ConvertOpenAIToAnthropic

LEMMA BuildKeeps == IInv /\ BuildCurrentMessage => IInv'
<1> SUFFICES ASSUME IInv, BuildCurrentMessage PROVE IInv'
  OBVIOUS
<1>1. CASE Refuse
  BY <1>1, RefuseKeeps
<1>2. CASE ~Refuse
  <2>1. /\ N # 0 /\ phase = "checked" /\ phase' = "history"
        /\ current' = CurrentEntry(messages[N])
        /\ history' = <<>> \/ history' = <<SystemEntry, OK>>
        /\ UNCHANGED <<endpoint, messages, i, userMessagesBuffer>>
    BY <1>2 DEF BuildCurrentMessage
  <2>2. i = 1 /\ userMessagesBuffer = {}
    BY <2>1 DEF IInv, PhaseInv
  <2>3. N' = N /\ Entry' = Entry
    BY <2>1 DEF N, Entry
  <2>4. TypeOK /\ N \in Nat /\ N > 0
    BY <2>1, MessagesTyped DEF IInv
  <2>5. TypeOK'
    <3>1. current' \in Entry
      BY <2>1, <2>4, CurrentTyped
    <3>2. SystemEntry \in Entry /\ OK \in Entry
      BY <2>4, PlaceholdersTyped
    <3>3. <<>> \in Seq(Entry) /\ <<SystemEntry, OK>> \in Seq(Entry)
      BY <3>2
    <3>4. history' \in Seq(Entry)
      BY <2>1, <3>3
    <3> QED
      BY <2>1, <2>3, <2>4, <3>1, <3>4 DEF TypeOK
  <2>6. current'.results = IF messages[N].role = "user" THEN messages[N].results ELSE {}
    BY <2>1 DEF CurrentEntry, UserMessage, ToolResults
  <2>7. PhaseInv'
    BY <2>1, <2>3, <2>4, <2>6 DEF PhaseInv
  <2>8. Kept(messages, history', {}, 1) /\ Alternates(history') /\ EmptyOnlyFirst(history')
    BY <2>1, NothingKept, SystemKept
  <2>9. ShapeInv'
    BY <2>8 DEF ShapeInv, EmptyOnlyFirst
  <2> QED
    BY <2>1, <2>2, <2>5, <2>7, <2>8, <2>9 DEF IInv, Kept, Waiting
<1> QED
  BY <1>1, <1>2

\* What the invariant says while the loop runs.
LEMMA InLoop ==
    ASSUME IInv, phase = "history"
    PROVE  /\ Kept(messages, history, userMessagesBuffer, i) /\ Alternates(history)
           /\ Waiting(messages, userMessagesBuffer, i) /\ EmptyOnlyFirst(history)
           /\ N \in Nat /\ N > 0 /\ i \in 1 .. N
           /\ userMessagesBuffer \in SUBSET (1 .. N - 1)
           /\ history \in Seq(Entry) /\ current \in Entry
           /\ \A k \in 1 .. N : messages[k] \in Message
<1>1. TypeOK /\ N \in Nat /\ N > 0
  BY MessagesTyped DEF IInv, PhaseInv
<1>2. i \in 1 .. N
  BY <1>1 DEF TypeOK
<1>3. EmptyOnlyFirst(history)
  BY DEF IInv, ShapeInv, EmptyOnlyFirst
<1> QED
  BY <1>1, <1>2, <1>3, MessagesTyped DEF IInv, Kept, TypeOK

\* And what it takes to say the same after a turn of the loop.
LEMMA TurnKeeps ==
    ASSUME IInv, phase = "history", i < N, i' = i + 1,
           UNCHANGED <<endpoint, messages, phase, current>>,
           history' \in Seq(Entry), userMessagesBuffer' \subseteq 1 .. N - 1,
           Kept(messages, history', userMessagesBuffer', i + 1), Alternates(history'),
           Waiting(messages, userMessagesBuffer', i + 1), EmptyOnlyFirst(history')
    PROVE  IInv'
<1>1. N' = N /\ Entry' = Entry /\ N \in Nat
  BY InLoop DEF N, Entry
<1>2. TypeOK'
  BY <1>1, InLoop DEF IInv, TypeOK
<1>3. PhaseInv'
  BY <1>1 DEF IInv, PhaseInv
<1>4. ShapeInv'
  BY DEF ShapeInv, EmptyOnlyFirst
<1> QED
  BY <1>2, <1>3, <1>4 DEF IInv, Kept

LEMMA CollectKeeps == IInv /\ CollectUser => IInv'
<1> SUFFICES ASSUME IInv, CollectUser PROVE IInv'
  OBVIOUS
<1>1. phase = "history" /\ i < N /\ messages[i].role = "user"
  BY DEF CollectUser, IsNext
<1>2. i \in Nat \ {0} /\ i \in 1 .. N - 1
  BY <1>1, InLoop
<1>3. /\ Kept(messages, history, userMessagesBuffer \cup {i}, i + 1)
      /\ Waiting(messages, userMessagesBuffer \cup {i}, i + 1)
  BY <1>1, <1>2, InLoop, AddWaiting
<1> QED
  BY <1>1, <1>2, <1>3, InLoop, TurnKeeps DEF CollectUser

LEMMA SkipKeeps == IInv /\ SkipMessage => IInv'
<1> SUFFICES ASSUME IInv, SkipMessage PROVE IInv'
  OBVIOUS
<1>1. phase = "history" /\ i < N /\ ~Speaks(messages[i].role)
  BY DEF SkipMessage, IsNext, Speaks
<1>2. i \in Nat \ {0}
  BY <1>1, InLoop
<1>3. /\ Kept(messages, history, userMessagesBuffer, i + 1)
      /\ Waiting(messages, userMessagesBuffer, i + 1)
  BY <1>1, <1>2, InLoop, PassOver
<1> QED
  BY <1>1, <1>3, InLoop, TurnKeeps DEF SkipMessage

\* The messages in the buffer, and the history with their entry.
LEMMA Merging ==
    ASSUME IInv, phase = "history", userMessagesBuffer # {}
    PROVE  LET g == history \o <<Merged(userMessagesBuffer)>> IN
           /\ g \in Seq(Entry) /\ Kept(messages, g, {}, i) /\ NoTwoUsers(g)
           /\ EmptyOnlyFirst(g) /\ g[Len(g)].role = "user" /\ g # <<>>
<1> DEFINE e == Merged(userMessagesBuffer)
           g == history \o <<e>>
<1>1. /\ e.from = userMessagesBuffer /\ e.role = "user" /\ e.uses = {}
      /\ e.results = UNION {messages[x].results : x \in userMessagesBuffer}
  BY DEF Merged, UserMessage, ToolResults
<1>2. e \in Entry
  BY InLoop, MergedTyped DEF IInv
<1> HIDE DEF e
<1>3. i \in Nat /\ history \in Seq(Entry)
  BY InLoop
<1>4. g \in Seq(Entry) /\ g[Len(g)] = e /\ g # <<>>
  BY <1>2, <1>3
<1>5. Kept(messages, g, {}, i) /\ NoTwoUsers(g)
  BY <1>1, <1>2, <1>3, InLoop, AddBuffered
<1>6. EmptyOnlyFirst(g)
  BY <1>1, <1>2, <1>3, InLoop, AddNonEmpty
<1> QED
  BY <1>1, <1>4, <1>5, <1>6 DEF e

LEMMA PairKeeps == IInv /\ PairAssistant => IInv'
<1> SUFFICES ASSUME IInv, PairAssistant PROVE IInv'
  OBVIOUS
<1>1. phase = "history" /\ i < N /\ messages[i].role = "assistant"
  BY DEF PairAssistant, IsNext
<1>2. i \in Nat \ {0} /\ i \in 1 .. N
  BY <1>1, InLoop
<1> DEFINE e == AssistantEntry(i)
           g == history \o BufferedEntry
<1>3. /\ e.from = {i} /\ e.role = "assistant" /\ e.uses = ToolUses(messages[i])
      /\ e.results = {}
  BY DEF AssistantEntry, AssistantMessage
<1>4. e \in Entry
  BY <1>2, AssistantEntryTyped DEF IInv
<1> HIDE DEF e
<1>5. /\ g \in Seq(Entry) /\ Kept(messages, g, {}, i) /\ NoTwoUsers(g)
      /\ EmptyOnlyFirst(g)
  <2>1. CASE userMessagesBuffer # {}
    BY <1>1, <2>1, Merging DEF BufferedEntry
  <2>2. CASE userMessagesBuffer = {}
    <3>1. g = history
      BY <1>1, <2>2, InLoop, AppendNone DEF BufferedEntry
    <3> QED
      BY <1>1, <2>2, <3>1, InLoop DEF NoTwoUsers, Alternates
  <2> QED
    BY <2>1, <2>2
<1>6. history' = g \o <<e>>
  BY DEF PairAssistant, e
<1> HIDE DEF g
<1>7. \A k \in DOMAIN g : g[k].role \in {"user", "assistant"}
  <2>1. \A k \in DOMAIN g : g[k] \in Entry
    BY <1>5
  <2> QED
    BY <2>1 DEF Entry
<1>8. g # <<>> => Len(g) \in DOMAIN g
  BY <1>5
<1>9. g # <<>> => \/ g[Len(g)].role = "user"
                  \/ g[Len(g)].from # {}
                  \/ EmptyFirst(g, Len(g))
  BY <1>5, <1>8 DEF EmptyOnlyFirst
<1>10. Kept(messages, g \o <<e>>, {}, i + 1) /\ Alternates(g \o <<e>>)
  BY <1>1, <1>2, <1>3, <1>4, <1>5, <1>7, <1>9, AddAssistant
<1>11. g \o <<e>> \in Seq(Entry)
  BY <1>4, <1>5
<1>12. EmptyOnlyFirst(g \o <<e>>)
  BY <1>3, <1>4, <1>5, AddNonEmpty
<1>13. Waiting(messages, {}, i + 1)
  BY DEF Waiting
<1> QED
  BY <1>1, <1>6, <1>10, <1>11, <1>12, <1>13, TurnKeeps DEF PairAssistant

LEMMA OrphansKeep == IInv /\ AnswerOrphans => IInv'
<1> SUFFICES ASSUME IInv, AnswerOrphans PROVE IInv'
  OBVIOUS
<1>1. /\ phase = "history" /\ i = N /\ phase' = "validating"
      /\ N \in Nat /\ N > 0 /\ TypeOK /\ history \in Seq(Entry)
  BY InLoop DEF AnswerOrphans, IInv
<1>2. N' = N /\ Entry' = Entry
  BY DEF AnswerOrphans, N, Entry
<1>3. PhaseInv'
  BY <1>1, <1>2 DEF IInv, PhaseInv, AnswerOrphans
<1>4. /\ history' \in Seq(Entry) /\ Kept(messages, history', {}, i)
      /\ Alternates(history') /\ ShapeInv'
  <2>1. CASE userMessagesBuffer = {}
    <3>1. history' = history
      BY <1>1, <2>1, AppendNone DEF AnswerOrphans, BufferedEntry
    <3> QED
      BY <1>1, <2>1, <3>1, InLoop DEF ShapeInv, EmptyOnlyFirst
  <2>2. CASE userMessagesBuffer # {}
    <3> DEFINE g == history \o <<Merged(userMessagesBuffer)>>
    <3>1. history' = g \o <<OK>>
      BY <2>2 DEF AnswerOrphans, BufferedEntry
    <3>2. /\ g \in Seq(Entry) /\ Kept(messages, g, {}, i) /\ NoTwoUsers(g)
          /\ EmptyOnlyFirst(g)
      BY <1>1, <2>2, Merging
    <3> HIDE DEF g
    <3>3. /\ OK \in Entry /\ OK.from = {} /\ OK.role = "assistant" /\ OK.uses = {}
          /\ OK.results = {}
      BY <1>1, PlaceholdersTyped DEF OK, AssistantMessage
    <3>4. Kept(messages, history', {}, i) /\ Alternates(history')
      BY <1>1, <3>1, <3>2, <3>3, AddPlaceholder
    <3>5. history' \in Seq(Entry)
      BY <3>1, <3>2, <3>3
    <3>6. Split'
      <4>1. PICK j \in userMessagesBuffer : TRUE
        BY <2>2
      <4>2. j \in 1 .. N - 1
        BY <1>1, InLoop
      <4>3. /\ messages[j].role = "user"
            /\ \A b \in j + 1 .. N - 1 : messages[b].role # "assistant"
        BY <1>1, InLoop DEF Waiting
      <4>4. UNCHANGED messages
        BY DEF AnswerOrphans
      <4> QED
        BY <1>2, <4>2, <4>3, <4>4 DEF Split
    <3>7. /\ Len(g) \in Nat /\ DOMAIN g = 1 .. Len(g)
          /\ DOMAIN history' = 1 .. Len(g) + 1 /\ Len(history') = Len(g) + 1
          /\ \A k \in DOMAIN g : history'[k] = g[k]
      BY <3>1, <3>2, <3>3
    <3>8. ASSUME NEW k \in DOMAIN history', history'[k].from = {}, k # Len(history')
          PROVE  EmptyFirst(history', k)
      <4>1. k \in DOMAIN g /\ g[k].from = {}
        BY <3>7, <3>8
      <4>2. \A l \in 1 .. k : l \in DOMAIN g /\ g[l].from = {}
        BY <3>2, <3>7, <4>1 DEF EmptyOnlyFirst, EmptyFirst
      <4> QED
        BY <3>7, <4>2 DEF EmptyFirst
    <3>9. ShapeInv'
      BY <1>1, <3>6, <3>8 DEF ShapeInv
    <3> QED
      BY <3>4, <3>5, <3>9
  <2> QED
    BY <2>1, <2>2
<1>5. TypeOK'
  BY <1>1, <1>2, <1>4 DEF TypeOK, AnswerOrphans
<1> QED
  BY <1>3, <1>4, <1>5 DEF IInv, Kept, AnswerOrphans, Waiting

LEMMA ValidateKeeps == ASSUME NEW hasTools \in BOOLEAN PROVE IInv /\ Validate(hasTools) => IInv'
<1> SUFFICES ASSUME IInv, Validate(hasTools), ~Refuse PROVE IInv'
  BY RefuseKeeps
<1>1. /\ phase = "validating" /\ phase' = "sent"
      /\ UNCHANGED <<endpoint, messages, i, userMessagesBuffer, history>>
      /\ current' = current \/ current' = [current EXCEPT !.texts = {Own}]
  BY DEF Validate
<1>2. N' = N /\ Entry' = Entry
  BY <1>1 DEF N, Entry
<1>3. TypeOK /\ N \in Nat
  BY MessagesTyped DEF IInv
<1>4. current' \in Entry /\ current'.results = current.results
  <2>1. {Own} \subseteq 0 .. N
    BY <1>3 DEF Own
  <2>2. current \in Entry
    BY <1>3 DEF TypeOK
  <2> QED
    BY <1>1, <2>1, <2>2 DEF Entry
<1>5. TypeOK'
  BY <1>1, <1>2, <1>3, <1>4 DEF TypeOK
<1>6. PhaseInv'
  BY <1>1, <1>2, <1>4 DEF IInv, PhaseInv
<1>7. ShapeInv'
  BY <1>1, <1>2 DEF IInv, ShapeInv, Split, EmptyFirst
<1> QED
  BY <1>1, <1>5, <1>6, <1>7 DEF IInv

LEMMA StutterKeeps == IInv /\ UNCHANGED vars => IInv'
<1> SUFFICES ASSUME IInv, UNCHANGED vars PROVE IInv'
  OBVIOUS
<1>1. N' = N /\ Entry' = Entry
  BY DEF vars, N, Entry
<1>2. TypeOK' /\ PhaseInv'
  BY <1>1 DEF IInv, TypeOK, PhaseInv, vars
<1>3. ShapeInv'
  BY <1>1 DEF IInv, ShapeInv, Split, EmptyFirst, vars
<1> QED
  BY <1>2, <1>3 DEF IInv, vars

LEMMA NextInv == IInv /\ [Next]_vars => IInv'
<1> SUFFICES ASSUME IInv, [Next]_vars PROVE IInv'
  OBVIOUS
<1>1. CASE CheckLastMessage
  BY <1>1, CheckKeeps
<1>2. CASE ConvertOpenAIToAnthropic
  BY <1>2, ConvertKeeps
<1>3. CASE BuildCurrentMessage
  BY <1>3, BuildKeeps
<1>4. CASE ModelNotFound
  BY <1>4, RefuseKeeps DEF ModelNotFound
<1>5. CASE CollectUser
  BY <1>5, CollectKeeps
<1>6. CASE PairAssistant
  BY <1>6, PairKeeps
<1>7. CASE SkipMessage
  BY <1>7, SkipKeeps
<1>8. CASE AnswerOrphans
  BY <1>8, OrphansKeep
<1>9. CASE RefuseThinking
  BY <1>9, RefuseKeeps DEF RefuseThinking
<1>10. CASE \E hasTools \in BOOLEAN : Validate(hasTools)
  BY <1>10, ValidateKeeps
<1>11. CASE UNCHANGED vars
  BY <1>11, StutterKeeps
<1> QED
  BY <1>1, <1>2, <1>3, <1>4, <1>5, <1>6, <1>7, <1>8, <1>9, <1>10, <1>11 DEF Next

LEMMA Inductive == Spec => []IInv
  BY InitInv, NextInv, PTL DEF Spec

-----------------------------------------------------------------------------
\* A request has a well-formed history at every point of its conversion, for
\* every length of the conversation and every shape of message.
THEOREM TypeCorrect == Spec => []TypeOK
  BY Inductive, InvariantImplies, PTL

\* No message and no tool result is lost on the way into the history, and none
\* is moved past another (codewhisperer.go:422-497, 499-543).
THEOREM CarriedHolds == Spec => []Carried
  BY Inductive, InvariantImplies, PTL

\* User and assistant entries alternate as upstream wants them
\* (codewhisperer.go:418-419, 499-500).
THEOREM PairedHolds == Spec => []Paired
  BY Inductive, InvariantImplies, PTL

-----------------------------------------------------------------------------
(* The turns of the tools.                                                  *)
\* An assistant message before the loop's position is in an entry of its own.
LEMMA TurnIsEntry ==
    ASSUME IInv, NEW a \in 1 .. i - 1, messages[a].role = "assistant"
    PROVE  \E l \in DOMAIN history : a \in history[l].from /\ history[l].role = "assistant"
<1>1. a \notin userMessagesBuffer
  BY DEF IInv, Waiting
<1>2. PICK l \in DOMAIN history : a \in history[l].from
  BY <1>1 DEF IInv, AllThere, Speaks
<1> QED
  BY <1>2 DEF IInv, Truthful

\* The user messages of an entry answer the assistant entry before it.
LEMMA TurnBefore ==
    ASSUME IInv, NEW k \in DOMAIN history, NEW x \in history[k].from, NEW a,
           history[k].role = "user", IsTurnOf(a, x)
    PROVE  k > 1 /\ a \in history[k - 1].from /\ history[k - 1].role = "assistant"
<1>1. /\ history \in Seq(Entry) /\ Len(history) \in Nat
      /\ DOMAIN history = 1 .. Len(history) /\ i \in Nat
      /\ \A l \in DOMAIN history : history[l] \in Entry
  <2>1. TypeOK /\ N \in Nat
    BY MessagesTyped DEF IInv
  <2> QED
    BY <2>1 DEF TypeOK
<1>2. x \in 1 .. i - 1 /\ a \in 1 .. x - 1 /\ messages[a].role = "assistant"
  BY DEF IInv, AllThere, IsTurnOf
<1>3. a \in 1 .. i - 1
  BY <1>1, <1>2
<1>4. PICK l \in DOMAIN history : a \in history[l].from /\ history[l].role = "assistant"
  BY <1>2, <1>3, TurnIsEntry
<1>5. l < k
  <2>1. ~(k < l)
    BY <1>1, <1>2, <1>4 DEF IInv, InOrder
  <2> QED
    BY <1>1, <1>4, <2>1
<1>6. k - 1 \in DOMAIN history /\ k - 1 \in 1 .. Len(history) - 1
  BY <1>1, <1>5
<1>7. history[k - 1].role = "assistant"
  <2>1. history[k - 1].role # "user"
    BY <1>1, <1>6 DEF IInv, Alternates
  <2>2. history[k - 1] \in Entry
    BY <1>1, <1>6
  <2> QED
    BY <2>1, <2>2 DEF Entry
<1>8. l = k - 1
  <2> SUFFICES ASSUME l < k - 1 PROVE FALSE
    BY <1>1, <1>5
  <2>1. CASE history[k - 1].from = {}
    <3>1. EmptyFirst(history, k - 1)
      BY <1>1, <1>6, <2>1 DEF IInv, ShapeInv
    <3> QED
      BY <1>1, <1>4, <3>1 DEF EmptyFirst
  <2>2. CASE history[k - 1].from # {}
    <3>1. PICK z \in history[k - 1].from : TRUE
      BY <2>2
    <3>2. a < z /\ z < x /\ z \in 1 .. i - 1 /\ messages[z].role = "assistant"
      BY <1>1, <1>4, <1>6, <1>7 DEF IInv, InOrder, Truthful, AllThere
    <3> QED
      BY <1>1, <1>2, <3>2 DEF IsTurnOf
  <2> QED
    BY <2>1, <2>2
<1> QED
  BY <1>1, <1>4, <1>5, <1>7, <1>8

\* The current message answers the last entry.
LEMMA TurnLast ==
    ASSUME IInv, phase = "sent", ~Split, NEW a, IsTurnOf(a, N)
    PROVE  /\ history # <<>> /\ a \in history[Len(history)].from
           /\ history[Len(history)].role = "assistant"
<1>1. /\ history \in Seq(Entry) /\ Len(history) \in Nat
      /\ DOMAIN history = 1 .. Len(history) /\ i = N /\ N \in Nat
      /\ userMessagesBuffer = {}
  <2>1. TypeOK /\ N \in Nat /\ N > 0 /\ i >= N /\ userMessagesBuffer = {}
    BY MessagesTyped DEF IInv, PhaseInv
  <2> QED
    BY <2>1 DEF TypeOK
<1>2. a \in 1 .. i - 1 /\ messages[a].role = "assistant"
  BY <1>1 DEF IsTurnOf
<1>3. PICK l \in DOMAIN history : a \in history[l].from /\ history[l].role = "assistant"
  BY <1>2, TurnIsEntry
<1> DEFINE last == Len(history)
<1>4. history # <<>> /\ last \in DOMAIN history /\ l \in 1 .. last
  BY <1>1, <1>3
<1>5. history[last].role = "assistant"
  BY <1>4 DEF IInv, Alternates
<1>6. l = last
  <2> SUFFICES ASSUME l < last PROVE FALSE
    BY <1>1, <1>4
  <2>1. CASE history[last].from = {}
    <3>1. EmptyFirst(history, last)
      BY <1>4, <2>1 DEF IInv, ShapeInv
    <3> QED
      BY <1>3, <1>4, <3>1 DEF EmptyFirst
  <2>2. CASE history[last].from # {}
    <3>1. PICK z \in history[last].from : TRUE
      BY <2>2
    <3>2. a < z /\ z \in 1 .. i - 1 /\ messages[z].role = "assistant"
      BY <1>3, <1>4, <1>5 DEF IInv, InOrder, Truthful, AllThere
    <3> QED
      BY <1>1, <1>2, <3>2 DEF IsTurnOf
  <2> QED
    BY <2>1, <2>2
<1> QED
  BY <1>3, <1>4, <1>5, <1>6

LEMMA ResultsFollowCalls ==
    ASSUME IInv, ResultsHaveCalls, NEW k \in DOMAIN history,
           NEW t \in history[k].results \ WebSearch
    PROVE  k > 1 /\ t \in history[k - 1].uses
<1>1. PICK x \in history[k].from : t \in messages[x].results
  BY DEF IInv, Truthful
<1>2. history[k].role = "user" /\ messages[x].role = "user" /\ x \in 1 .. N
  <2>1. TypeOK /\ N \in Nat
    BY MessagesTyped DEF IInv
  <2>2. history[k].role # "assistant"
    BY DEF IInv, Truthful
  <2>3. history[k] \in Entry
    BY <2>1 DEF TypeOK
  <2> QED
    BY <1>1, <2>2, <2>3 DEF Entry, IInv, Truthful
<1>3. PICK a \in 1 .. N : IsTurnOf(a, x) /\ t \in messages[a].uses
  BY <1>1, <1>2 DEF ResultsHaveCalls
<1>4. k > 1 /\ a \in history[k - 1].from /\ history[k - 1].role = "assistant"
  BY <1>1, <1>2, <1>3, TurnBefore
<1>5. k - 1 \in DOMAIN history
  <2>1. DOMAIN history = 1 .. Len(history) /\ Len(history) \in Nat
    BY DEF IInv, TypeOK
  <2> QED
    BY <1>4, <2>1
<1> QED
  BY <1>3, <1>4, <1>5 DEF IInv, Truthful, ToolUses

LEMMA CurrentFollowsCalls ==
    ASSUME IInv, ResultsHaveCalls, phase = "sent", ~Split,
           NEW t \in current.results \ WebSearch
    PROVE  t \in history[Len(history)].uses
<1>1. messages[N].role = "user" /\ t \in messages[N].results /\ N \in 1 .. N
  <2>1. N \in Nat /\ N > 0
    BY MessagesTyped DEF IInv, PhaseInv
  <2> QED
    BY <2>1 DEF IInv, PhaseInv
<1>2. PICK a \in 1 .. N : IsTurnOf(a, N) /\ t \in messages[a].uses
  BY <1>1 DEF ResultsHaveCalls
<1>3. /\ history # <<>> /\ a \in history[Len(history)].from
      /\ history[Len(history)].role = "assistant"
  BY <1>2, TurnLast
<1>4. Len(history) \in DOMAIN history
  BY <1>3 DEF IInv, TypeOK
<1> QED
  BY <1>2, <1>3, <1>4 DEF IInv, Truthful, ToolUses

LEMMA CallsAreAnswered ==
    ASSUME IInv, CallsHaveResults, phase = "sent", ~Split, NEW k \in DOMAIN history,
           NEW t \in history[k].uses
    PROVE  t \in IF k < Len(history) THEN history[k + 1].results ELSE current.results
<1>1. /\ Len(history) \in Nat /\ DOMAIN history = 1 .. Len(history)
      /\ history[k] \in Entry /\ i = N /\ N \in Nat /\ N > 0
      /\ userMessagesBuffer = {}
  <2>1. TypeOK /\ N \in Nat /\ N > 0 /\ i >= N /\ userMessagesBuffer = {}
    BY MessagesTyped DEF IInv, PhaseInv
  <2> QED
    BY <2>1 DEF TypeOK
<1>2. history[k].role = "assistant"
  BY <1>1 DEF IInv, Truthful, Entry
<1>3. PICK x \in history[k].from : t \in messages[x].uses \ WebSearch
  BY <1>2 DEF IInv, Truthful, ToolUses
<1>4. x \in 1 .. N /\ messages[x].role = "assistant"
  <2>1. x \in 1 .. i - 1
    BY DEF IInv, AllThere
  <2> QED
    BY <1>1, <1>2, <2>1 DEF IInv, Truthful
<1>5. PICK j \in 1 .. N : /\ messages[j].role = "user" /\ IsTurnOf(x, j)
                          /\ t \in messages[j].results
  BY <1>3, <1>4 DEF CallsHaveResults
<1>6. \A l \in DOMAIN history : x \in history[l].from => l = k
  BY <1>1, <1>4 DEF IInv, InOrder
<1>7. CASE j = N
  <2>1. history # <<>> /\ x \in history[Len(history)].from
    BY <1>5, <1>7, TurnLast
  <2>2. Len(history) \in DOMAIN history
    BY <1>1
  <2>3. k = Len(history)
    BY <1>6, <2>1, <2>2
  <2>4. t \in current.results
    BY <1>5, <1>7 DEF IInv, PhaseInv
  <2> QED
    BY <1>1, <2>3, <2>4
<1>8. CASE j < N
  <2>1. PICK l \in DOMAIN history : j \in history[l].from
    BY <1>1, <1>5, <1>8 DEF IInv, AllThere, Speaks
  <2>2. history[l].role = "user"
    BY <1>5, <2>1 DEF IInv, Truthful
  <2>3. l > 1 /\ x \in history[l - 1].from
    BY <1>5, <2>1, <2>2, TurnBefore
  <2>4. l - 1 = k
    BY <1>1, <1>6, <2>1, <2>3
  <2>5. k < Len(history) /\ l = k + 1
    BY <1>1, <2>1, <2>4
  <2>6. t \in history[l].results
    BY <1>5, <2>1, <2>2 DEF IInv, Truthful
  <2> QED
    BY <2>5, <2>6
<1> QED
  BY <1>1, <1>7, <1>8

LEMMA TurnsFromInvariant == IInv => ToolTurns
<1> SUFFICES ASSUME IInv, ResultsHaveCalls
    PROVE  /\ \A k \in DOMAIN history :
                 k = 1 => history[k].results \subseteq WebSearch
           /\ \A k \in 1 .. Len(history) - 1 :
                 history[k + 1].results \ WebSearch \subseteq history[k].uses
           /\ phase = "sent" /\ ~Split /\ history # <<>> =>
                 current.results \ WebSearch \subseteq history[Len(history)].uses
           /\ CallsHaveResults /\ phase = "sent" /\ ~Split =>
                 \A k \in DOMAIN history :
                     history[k].uses \subseteq IF k < Len(history)
                                               THEN history[k + 1].results
                                               ELSE current.results
  BY DEF ToolTurns
<1>1. ASSUME NEW k \in DOMAIN history, k = 1 PROVE history[k].results \subseteq WebSearch
  BY <1>1, ResultsFollowCalls
<1>2. ASSUME NEW k \in 1 .. Len(history) - 1
      PROVE  history[k + 1].results \ WebSearch \subseteq history[k].uses
  <2>1. /\ DOMAIN history = 1 .. Len(history) /\ Len(history) \in Nat
    BY DEF IInv, TypeOK
  <2>2. k + 1 \in DOMAIN history /\ (k + 1) - 1 = k
    BY <2>1
  <2> QED
    BY <2>2, ResultsFollowCalls
<1>3. phase = "sent" /\ ~Split /\ history # <<>> =>
         current.results \ WebSearch \subseteq history[Len(history)].uses
  BY CurrentFollowsCalls
<1>4. ASSUME CallsHaveResults, phase = "sent", ~Split, NEW k \in DOMAIN history
      PROVE  history[k].uses \subseteq IF k < Len(history) THEN history[k + 1].results
                                                          ELSE current.results
  BY <1>4, CallsAreAnswered
<1> QED
  BY <1>1, <1>2, <1>3, <1>4

\* The tools of a conversation that keeps the protocol arrive in turns as
\* upstream wants them: results right behind their calls
\* (codewhisperer.go:90-203, 616-697).
THEOREM ToolTurnsHolds == Spec => []ToolTurns
  BY Inductive, TurnsFromInvariant, PTL
=============================================================================
