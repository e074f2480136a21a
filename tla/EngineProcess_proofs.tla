------------------------ MODULE EngineProcess_proofs ------------------------
(***************************************************************************)
(* What a client of the engine process may rely on, for any number of      *)
(* streams and calls, any length of a stream and any exception: a stream   *)
(* is delivered in order, and a snapshot is not older than its call.       *)
(***************************************************************************)
EXTENDS EngineProcess, DataLemmas, FiniteSetTheorems, TLAPS

---------------------------------------------------------------------------
(* What is in the queues and on the pipe *)

Item ==
  [kind : {"token", "finished"}, n : Nat]
    \cup [kind : {"error"}, n : Kinds \cup {"other", "lost"}]

Command ==
  [kind : {"start", "cancel"}, id : Streams] \cup [kind : {"metrics"}, id : Calls]
    \cup {Shutdown}

Message ==
  [kind : {"event"}, id : Streams, item : [kind : {"token", "finished"}, n : Nat]]
    \cup [kind : {"failure"}, id : Streams, item : [kind : {"error"}, n : Kinds]]
    \cup [kind : {"metrics"}, id : Calls, value : Nat]
    \cup {Started, ProcessFailure, Stopped, WriterEnd}

Batch == Seq(Message)
Items == Seq(Item)

(* The laws of joining, for sequences of items.                            *)
LEMMA CatItems ==
  ASSUME NEW a \in Items, NEW b \in Items
  PROVE  /\ Cat(a, b) \in Items /\ << >> \in Items
         /\ Cat(a, << >>) = a /\ Cat(<< >>, a) = a
         /\ \A c \in Items : Cat(Cat(a, b), c) = Cat(a, Cat(b, c))
<1>1. Cat(a, b) \in Items /\ << >> \in Items BY CatType DEF Items
<1>2. Cat(a, << >>) = a /\ Cat(<< >>, a) = a BY CatEmpty DEF Items
<1>3. ASSUME NEW c \in Items PROVE Cat(Cat(a, b), c) = Cat(a, Cat(b, c))
  BY CatAssociative DEF Items
<1> QED BY <1>1, <1>2, <1>3

(* A message puts at most one item in a queue, and never the loss itself.  *)
LEMMA ItemsOfMessage ==
  ASSUME NEW r, NEW m \in Message
  PROVE  \/ ItemsOf(r, m) = << >>
         \/ \E x \in Item : x # LostError /\ ItemsOf(r, m) = <<x>>
<1>1. CASE m.kind \notin {"event", "failure"} BY <1>1 DEF ItemsOf
<1>2. CASE m.kind = "event"
  <2>1. m \in [kind : {"event"}, id : Streams, item : [kind : {"token", "finished"}, n : Nat]]
    BY <1>2 DEF Message, Started, ProcessFailure, Stopped, WriterEnd
  <2>2. m.item \in Item /\ m.item.kind # "error" BY <2>1 DEF Item
  <2>3. m.item # LostError BY <2>2 DEF LostError, Raised
  <2> QED BY <1>2, <2>2, <2>3 DEF ItemsOf
<1>3. CASE m.kind = "failure"
  <2>1. m \in [kind : {"failure"}, id : Streams, item : [kind : {"error"}, n : Kinds]]
    BY <1>3 DEF Message, Started, ProcessFailure, Stopped, WriterEnd
  <2>2. RemoteError(m.item.n) \in Kinds BY DEF RemoteError, Kinds
  <2>3. Raised(RemoteError(m.item.n)) \in Item BY <2>2 DEF Item, Raised
  <2>4. Raised(RemoteError(m.item.n)) # LostError BY <2>2 DEF Raised, LostError, Kinds
  <2> QED BY <1>3, <2>3, <2>4 DEF ItemsOf
<1> QED BY <1>1, <1>2, <1>3

(* What a message puts in a queue is a sequence of items.                  *)
LEMMA ItemsOfType ==
  ASSUME NEW r, NEW m \in Message PROVE ItemsOf(r, m) \in Items
<1>1. << >> \in Items /\ \A x \in Item : <<x>> \in Items BY DEF Items
<1> QED BY <1>1, ItemsOfMessage

(* Messages about the server itself put nothing in a queue.                *)
LEMMA NoItems ==
  ASSUME NEW r
  PROVE  /\ ItemsOf(r, Started) = << >> /\ ItemsOf(r, ProcessFailure) = << >>
         /\ ItemsOf(r, Stopped) = << >> /\ ItemsOf(r, WriterEnd) = << >>
         /\ {Started, ProcessFailure, Stopped, WriterEnd} \subseteq Message
  BY DEF ItemsOf, Started, ProcessFailure, Stopped, WriterEnd, Message

---------------------------------------------------------------------------
(* The items of a batch, and of everything on the pipe *)

(* The items of a batch are what the function that names those of each     *)
(* message gives, joined.                                                  *)
Of(r) == [m \in Message |-> ItemsOf(r, m)]

(* The items of a batch are its messages, mapped and joined.               *)
LEMMA ForMapped ==
  ASSUME NEW r, NEW b \in Batch
  PROVE  ItemsFor(r, b) = FlattenSeq(Mapped(Of(r), b))
<1>1. \A i \in DOMAIN b : b[i] \in Message BY DEF Batch
<1>2. \A i \in DOMAIN b : Of(r)[b[i]] = ItemsOf(r, b[i]) BY <1>1 DEF Of
<1>3. [i \in DOMAIN b |-> ItemsOf(r, b[i])] = Mapped(Of(r), b) BY <1>2, Zenon DEF Mapped
<1> QED BY <1>3 DEF ItemsFor

(* The function of a stream maps messages to items.                        *)
LEMMA OfType == ASSUME NEW r PROVE Of(r) \in [Message -> Items]
  BY ItemsOfType DEF Of

(* An empty batch has nothing for a stream.                                *)
LEMMA ForEmpty == ASSUME NEW r PROVE ItemsFor(r, << >>) = << >>
<1>1. [i \in DOMAIN << >> |-> ItemsOf(r, << >>[i])] = << >> OBVIOUS
<1> QED BY <1>1, FlattenEmpty DEF ItemsFor

(* The items of two batches come one after the other.                      *)
LEMMA ForCat ==
  ASSUME NEW r, NEW b \in Batch, NEW c \in Batch
  PROVE  /\ ItemsFor(r, Cat(b, c)) = Cat(ItemsFor(r, b), ItemsFor(r, c))
         /\ ItemsFor(r, b) \in Items
         /\ Cat(b, c) \in Batch
<1>1. Cat(b, c) \in Batch BY CatType DEF Batch
<1>2. Maps(Of(r), Message, Item) BY OfType DEF Maps, Mapping, Items
<1>3. FlattenSeq(Mapped(Of(r), Cat(b, c))) =
        Cat(FlattenSeq(Mapped(Of(r), b)), FlattenSeq(Mapped(Of(r), c)))
  BY <1>2, MappedCat DEF Batch
<1>4. FlattenSeq(Mapped(Of(r), b)) \in Items BY <1>2, MappedType DEF Batch, Items
<1> QED BY <1>1, <1>3, <1>4, ForMapped

(* A batch of one message has the items of the message.                    *)
LEMMA ForOne ==
  ASSUME NEW r, NEW m \in Message PROVE ItemsFor(r, <<m>>) = ItemsOf(r, m)
<1>1. <<m>> \in Batch BY DEF Batch
<1>2. Maps(Of(r), Message, Item) BY OfType DEF Maps, Mapping, Items
<1>3. FlattenSeq(Mapped(Of(r), <<m>>)) = Of(r)[m] BY <1>2, MappedOne
<1>4. Of(r)[m] = ItemsOf(r, m) BY DEF Of
<1> QED BY <1>1, <1>3, <1>4, ForMapped

(* One more message at the end of a batch.                                 *)
LEMMA ForAppend ==
  ASSUME NEW r, NEW b \in Batch, NEW m \in Message
  PROVE  /\ ItemsFor(r, Append(b, m)) = Cat(ItemsFor(r, b), ItemsOf(r, m))
         /\ Append(b, m) \in Batch
<1>1. <<m>> \in Batch /\ Append(b, m) \in Batch BY DEF Batch
<1>2. Append(b, m) = Cat(b, <<m>>) BY CatOne DEF Batch
<1> QED BY <1>1, <1>2, ForCat, ForOne

(* What the batches on the pipe hold for a stream.                         *)
SentFor(r, batches) == ItemsFor(r, FlattenSeq(batches))

(* An empty pipe has nothing for a stream.                                 *)
LEMMA SentEmpty == ASSUME NEW r PROVE SentFor(r, << >>) = << >>
  BY FlattenEmpty, ForEmpty DEF SentFor

(* What is on the pipe for a stream is a sequence of items.                *)
LEMMA SentType ==
  ASSUME NEW batches \in Seq(Batch)
  PROVE  /\ FlattenSeq(batches) \in Batch
         /\ \A r : SentFor(r, batches) \in Items
<1>1. FlattenSeq(batches) \in Batch BY FlattenAppend, EmptySeq DEF Batch
<1> QED BY <1>1, ForCat DEF SentFor

(* A batch that is written comes after what is on the pipe.                *)
LEMMA SentAppend ==
  ASSUME NEW r, NEW batches \in Seq(Batch), NEW b \in Batch
  PROVE  SentFor(r, Append(batches, b)) = Cat(SentFor(r, batches), ItemsFor(r, b))
<1>1. FlattenSeq(Append(batches, b)) = Cat(FlattenSeq(batches), b)
  BY FlattenAppend DEF Batch
<1>2. FlattenSeq(batches) \in Batch BY SentType
<1> QED BY <1>1, <1>2, ForCat DEF SentFor

(* A batch that is read comes before what stays on the pipe.               *)
LEMMA SentHead ==
  ASSUME NEW r, NEW batches \in Seq(Batch), batches # << >>
  PROVE  /\ SentFor(r, batches) = Cat(ItemsFor(r, Head(batches)), SentFor(r, Tail(batches)))
         /\ Head(batches) \in Batch /\ Tail(batches) \in Seq(Batch)
<1>1. Head(batches) \in Batch /\ Tail(batches) \in Seq(Batch) BY HeadTailProperties
<1>2. FlattenSeq(batches) = Cat(Head(batches), FlattenSeq(Tail(batches)))
  BY FlattenHead DEF Batch
<1>3. FlattenSeq(Tail(batches)) \in Batch BY <1>1, SentType
<1> QED BY <1>1, <1>2, <1>3, ForCat DEF SentFor

---------------------------------------------------------------------------
(* The items a consumer is to see: all but the loss of the connection *)

Shown == [x \in Item |-> IF x = LostError THEN << >> ELSE <<x>>]

(* An item is shown as itself, the loss as nothing.                        *)
LEMMA ShownMaps == Maps(Shown, Item, Item)
<1>1. \A x \in Item : (IF x = LostError THEN << >> ELSE <<x>>) \in Seq(Item) OBVIOUS
<1>2. Shown \in [Item -> Seq(Item)] BY <1>1 DEF Shown
<1> QED BY <1>2 DEF Maps, Mapping

(* What is shown of a queue is its items, mapped and joined.               *)
LEMMA KnownMapped ==
  ASSUME NEW s \in Items PROVE Known(s) = FlattenSeq(Mapped(Shown, s))
<1>1. \A i \in DOMAIN s : s[i] \in Item BY DEF Items
<1>2. \A i \in DOMAIN s : Shown[s[i]] = IF s[i] = LostError THEN << >> ELSE <<s[i]>>
  BY <1>1 DEF Shown
<1>3. [i \in DOMAIN s |-> IF s[i] = LostError THEN << >> ELSE <<s[i]>>]
        = Mapped(Shown, s)
  BY <1>2, Zenon DEF Mapped
<1> QED BY <1>3 DEF Known

(* What is shown of two queues comes one after the other.                  *)
LEMMA KnownCat ==
  ASSUME NEW s \in Items, NEW t \in Items
  PROVE  /\ Known(Cat(s, t)) = Cat(Known(s), Known(t))
         /\ Known(s) \in Items /\ Cat(s, t) \in Items
<1>1. Cat(s, t) \in Items BY CatType DEF Items
<1>2. FlattenSeq(Mapped(Shown, Cat(s, t))) =
        Cat(FlattenSeq(Mapped(Shown, s)), FlattenSeq(Mapped(Shown, t)))
  BY ShownMaps, MappedCat DEF Items
<1>3. FlattenSeq(Mapped(Shown, s)) \in Items BY ShownMaps, MappedType DEF Items
<1> QED BY <1>1, <1>2, <1>3, KnownMapped

(* One item is shown as itself, unless it is the loss.                     *)
LEMMA KnownOne ==
  ASSUME NEW x \in Item
  PROVE  /\ x # LostError => Known(<<x>>) = <<x>>
         /\ Known(<<LostError>>) = << >> /\ Known(<< >>) = << >>
         /\ LostError \in Item
<1>1. LostError \in Item BY DEF Item, LostError, Raised
<1>2. \A y \in Item : Known(<<y>>) = Shown[y]
  <2> SUFFICES ASSUME NEW y \in Item PROVE Known(<<y>>) = Shown[y] OBVIOUS
  <2>1. <<y>> \in Items BY DEF Items
  <2>2. FlattenSeq(Mapped(Shown, <<y>>)) = Shown[y] BY ShownMaps, MappedOne
  <2> QED BY <2>1, <2>2, KnownMapped
<1>3. << >> \in Items BY DEF Items
<1>4. Known(<< >>) = << >> BY <1>3, KnownMapped, MappedEmpty
<1>5. x # LostError => Shown[x] = <<x>> BY DEF Shown
<1>6. Shown[LostError] = << >> BY <1>1 DEF Shown
<1> QED BY <1>1, <1>2, <1>4, <1>5, <1>6

(* A consumer is shown all that comes in messages.                         *)
LEMMA KnownItems ==
  ASSUME NEW r, NEW b \in Batch PROVE Known(ItemsFor(r, b)) = ItemsFor(r, b)
<1> DEFINE B == {n \in Nat : \A c \in Batch : Len(c) = n =>
                                Known(ItemsFor(r, c)) = ItemsFor(r, c)}
<1>0. LostError \in Item BY DEF Item, LostError, Raised
<1>1. 0 \in B
  <2> SUFFICES ASSUME NEW c \in Batch, Len(c) = 0
               PROVE  Known(ItemsFor(r, c)) = ItemsFor(r, c)
    OBVIOUS
  <2>1. c = << >> BY DEF Batch
  <2> QED BY <1>0, <2>1, ForEmpty, KnownOne
<1>2. ASSUME NEW n \in Nat, n \in B PROVE n + 1 \in B
  <2> SUFFICES ASSUME NEW c \in Batch, Len(c) = n + 1
               PROVE  Known(ItemsFor(r, c)) = ItemsFor(r, c)
    OBVIOUS
  <2>1. PICK d \in Batch, m \in Message : c = Append(d, m) /\ Len(d) = n
    <3> HIDE DEF B
    <3> QED BY SplitLast, Zenon DEF Batch
  <2>2. ItemsFor(r, c) = Cat(ItemsFor(r, d), ItemsOf(r, m)) BY <2>1, ForAppend
  <2>3. ItemsFor(r, d) \in Items /\ ItemsOf(r, m) \in Items BY ForCat, ItemsOfType
  <2>4. Known(ItemsFor(r, c)) = Cat(Known(ItemsFor(r, d)), Known(ItemsOf(r, m)))
    BY <2>2, <2>3, KnownCat
  <2>5. Known(ItemsFor(r, d)) = ItemsFor(r, d) BY <1>2, <2>1
  <2>6. Known(ItemsOf(r, m)) = ItemsOf(r, m) BY <1>0, ItemsOfMessage, KnownOne
  <2> QED BY <2>2, <2>4, <2>5, <2>6
<1>3. \A n \in Nat : n \in B
  <2> HIDE DEF B
  <2> QED BY <1>1, <1>2, Induct
<1>4. Len(b) \in Nat BY DEF Batch
<1>5. Len(b) \in B
  <2> HIDE DEF B
  <2> QED BY <1>3, <1>4
<1> QED BY <1>5

---------------------------------------------------------------------------
(* The invariant *)

Types ==
  /\ registered \subseteq Streams
  /\ queue \in [Streams -> Items] /\ got \in [Streams -> Items]
  /\ emitted \in [Streams -> Items]
  /\ consumer \in [Streams -> {"idle", "open", "ended"}]
  /\ call \in [Calls -> {"idle", "ready", "waiting", "answered", "failed", "done"}]
  /\ asked \in [Calls -> Nat] /\ answer \in [Calls -> Nat]
  /\ toServer \in Seq(Command) /\ toClient \in Seq(Batch) /\ responses \in Batch
  /\ tasks \in [Streams -> {"none", "running", "cancelled", "ended"}]

\* A stream that was never opened has left no trace; one that is not
\* registered has nothing to read; and one that is read is registered.
Entered ==
  \A r \in Streams :
    /\ consumer[r] = "idle" =>
         /\ r \notin registered /\ emitted[r] = << >> /\ tasks[r] = "none"
         /\ SentFor(r, toClient) = << >> /\ ItemsFor(r, responses) = << >>
         /\ \A i \in 1..Len(toServer) : toServer[i] # StartStream(r)
    /\ r \notin registered => got[r] = << >> /\ queue[r] = << >>
    /\ consumer[r] = "open" => r \in registered

\* The failure of the process is a message of its own.
FailureAlone ==
  /\ \A i \in 1..Len(toClient) : IsOf("processFailure", toClient[i]) =>
       toClient[i] = <<ProcessFailure>>
  /\ ~IsOf("processFailure", responses)

\* What the engine said on a stream is what was read, what is in the queue,
\* what is on the pipe and a rest, which the writer has while it runs.
Flow ==
  \A r \in registered :
    \E rest \in Items :
      /\ Said(r) = Cat(Cat(Seen(r), SentFor(r, toClient)), rest)
      /\ writer = "running" => rest = ItemsFor(r, responses)

\* A result answers a call that was made, at its time or later.
Timely(calls, times, batch) ==
  \A i \in 1..Len(batch) : batch[i].kind = "metrics" =>
    calls[batch[i].id] # "idle" /\ times[batch[i].id] =< batch[i].value

Times ==
  /\ \A c \in Calls : call[c] # "idle" => asked[c] =< Clock
  /\ \A i \in 1..Len(toServer) : toServer[i].kind = "metrics" =>
       call[toServer[i].id] # "idle"
  /\ Timely(call, asked, responses)
  /\ \A i \in 1..Len(toClient) : Timely(call, asked, toClient[i])

Invariant ==
  Types /\ Entered /\ FailureAlone /\ Flow /\ Times /\ MetricsFresh

---------------------------------------------------------------------------
(* The clock *)

(* The operations made are finitely many, and none is unmade.              *)
LEMMA StreamsNat ==
  /\ IsFiniteSet({r \in Streams : consumer[r] # "idle"})
  /\ Cardinality({r \in Streams : consumer[r] # "idle"}) \in Nat
  /\ IsFiniteSet(Streams)
<1>1. Streams = 1..MaxOperations /\ 1 \in Int /\ MaxOperations \in Int
  BY ProcessAssumption DEF Streams
<1>2. IsFiniteSet(Streams) BY <1>1, FS_Interval
<1>3. IsFiniteSet({r \in Streams : consumer[r] # "idle"}) BY <1>2, FS_Subset
<1> QED BY <1>2, <1>3, FS_CardinalityType

(* The clock counts.                                                       *)
LEMMA ClockNat == Clock \in Nat
<1>1. Streams = 1..MaxOperations /\ Calls = 1..MaxOperations
      /\ 1 \in Int /\ MaxOperations \in Int
  BY ProcessAssumption DEF Streams, Calls
<1>2. IsFiniteSet(Streams) /\ IsFiniteSet(Calls) BY <1>1, FS_Interval
<1>3. IsFiniteSet({r \in Streams : consumer[r] # "idle"})
      /\ IsFiniteSet({c \in Calls : call[c] # "idle"})
  BY <1>2, FS_Subset
<1> QED BY <1>3, FS_CardinalityType DEF Clock

(* The same of the state a step leads to.                                  *)
LEMMA ClockNatNext == Clock' \in Nat
<1>1. Streams = 1..MaxOperations /\ Calls = 1..MaxOperations
      /\ 1 \in Int /\ MaxOperations \in Int
  BY ProcessAssumption DEF Streams, Calls
<1>2. IsFiniteSet(Streams) /\ IsFiniteSet(Calls) BY <1>1, FS_Interval
<1>3. IsFiniteSet({r \in Streams : consumer'[r] # "idle"})
      /\ IsFiniteSet({c \in Calls : call'[c] # "idle"})
  BY <1>2, FS_Subset
<1> QED BY <1>3, FS_CardinalityType DEF Clock

(* More operations, a later time.                                          *)
LEMMA Later ==
  ASSUME NEW S, NEW T, IsFiniteSet(T), S \subseteq T
  PROVE  Cardinality(S) \in Nat /\ Cardinality(T) \in Nat
         /\ Cardinality(S) =< Cardinality(T)
  BY FS_Subset, FS_CardinalityType

---------------------------------------------------------------------------
(* The engine says something *)

SeenAs(items) == [i \in DOMAIN items |-> AsSeen(items[i])]

(* Items as they are to be seen are items.                                 *)
LEMMA SeenAsType ==
  ASSUME NEW e \in Items PROVE SeenAs(e) \in Items
<1>1. \A x \in Item : AsSeen(x) \in Item BY DEF Item, AsSeen, Raised, Kinds
<1>2. Len(e) \in Nat /\ DOMAIN e = 1..Len(e) /\ \A i \in 1..Len(e) : e[i] \in Item
  BY DEF Items
<1>3. SeenAs(e) \in [1..Len(e) -> Item] BY <1>1, <1>2 DEF SeenAs
<1> QED BY <1>2, <1>3 DEF Items

(* An item that is said last is to be seen last.                           *)
LEMMA SeenAsAppend ==
  ASSUME NEW e \in Items, NEW x \in Item
  PROVE  /\ SeenAs(Append(e, x)) = Cat(SeenAs(e), <<AsSeen(x)>>)
         /\ AsSeen(x) \in Item /\ Append(e, x) \in Items
<1> DEFINE f == SeenAs(e)
           g == SeenAs(Append(e, x))
           h == Cat(f, <<AsSeen(x)>>)
<1>1. AsSeen(x) \in Item BY DEF Item, AsSeen, Raised, Kinds
<1>2. Append(e, x) \in Items BY DEF Items
<1>3. f \in Items /\ g \in Items BY <1>2, SeenAsType
<1>4. <<AsSeen(x)>> \in Items BY <1>1 DEF Items
<1>5. /\ Len(e) \in Nat /\ Len(f) = Len(e) /\ Len(g) = Len(e) + 1
      /\ \A i \in 1..Len(e) : f[i] = AsSeen(e[i]) /\ g[i] = AsSeen(e[i])
      /\ g[Len(e) + 1] = AsSeen(x)
  BY DEF Items, SeenAs
<1> HIDE DEF f, g
<1>6. /\ h \in Items /\ Len(h) = Len(f) + 1
      /\ \A i \in 1..Len(f) : h[i] = f[i]
      /\ h[Len(f) + 1] = AsSeen(x)
  <2>1. h = Append(f, AsSeen(x)) BY <1>3, <1>1, CatOne DEF Items
  <2> HIDE DEF h
  <2> QED BY <1>3, <1>1, <2>1, AppendProperties DEF Items
<1> HIDE DEF h
<1>7. \A i \in 1..Len(g) : g[i] = h[i] BY <1>5, <1>6
<1>8. g = h BY <1>3, <1>5, <1>6, <1>7, SeqEqual DEF Items
<1> QED BY <1>1, <1>2, <1>8 DEF f, g, h

(* What was said on a stream, as it is to be seen.                         *)
LEMMA SaidIs == ASSUME NEW r \in Streams PROVE Said(r) = SeenAs(emitted[r])
  BY DEF Said, SeenAs

(* Whatever a forwarding task puts in the writer's queue is for its stream  *)
(* alone, and will be shown as the engine said it.                         *)
LEMMA ForwardShape ==
  ASSUME NEW r \in Streams, Types, Forward(r)
  PROVE  \E x \in Item, m \in Message :
           /\ emitted' = [emitted EXCEPT ![r] = Append(@, x)]
           /\ responses' = Append(responses, m)
           /\ ItemsOf(r, m) = <<AsSeen(x)>>
           /\ \A q \in Streams : q # r => ItemsOf(q, m) = << >>
           /\ m.kind \notin {"metrics", "processFailure"}
<1> DEFINE n == Len(emitted[r]) + 1
<1>1. n \in Nat BY DEF Types, Items
<1> HIDE DEF n
<1>2. CASE /\ emitted' = [emitted EXCEPT ![r] = Append(@, Token(n))]
           /\ responses' = Append(responses, StreamEvent(r, Token(n)))
  <2>1. Token(n) \in Item /\ AsSeen(Token(n)) = Token(n)
    BY <1>1 DEF Token, Item, AsSeen
  <2>2. StreamEvent(r, Token(n)) \in Message BY <1>1 DEF StreamEvent, Token, Message
  <2>3. /\ ItemsOf(r, StreamEvent(r, Token(n))) = <<Token(n)>>
        /\ \A q \in Streams : q # r => ItemsOf(q, StreamEvent(r, Token(n))) = << >>
        /\ StreamEvent(r, Token(n)).kind = "event"
    BY DEF ItemsOf, StreamEvent
  <2> QED BY <1>2, <2>1, <2>2, <2>3
<1>3. CASE /\ emitted' = [emitted EXCEPT ![r] = Append(@, Finished(n))]
           /\ responses' = Append(responses, StreamEvent(r, Finished(n)))
  <2>1. Finished(n) \in Item /\ AsSeen(Finished(n)) = Finished(n)
    BY <1>1 DEF Finished, Item, AsSeen
  <2>2. StreamEvent(r, Finished(n)) \in Message BY <1>1 DEF StreamEvent, Finished, Message
  <2>3. /\ ItemsOf(r, StreamEvent(r, Finished(n))) = <<Finished(n)>>
        /\ \A q \in Streams : q # r => ItemsOf(q, StreamEvent(r, Finished(n))) = << >>
        /\ StreamEvent(r, Finished(n)).kind = "event"
    BY DEF ItemsOf, StreamEvent
  <2> QED BY <1>3, <2>1, <2>2, <2>3
<1>4. ASSUME NEW e \in Errors,
             emitted' = [emitted EXCEPT ![r] = Append(@, Raised(e))],
             responses' = Append(responses, StreamFailure(r, FailureKind(e)))
      PROVE  \E x \in Item, m \in Message :
               /\ emitted' = [emitted EXCEPT ![r] = Append(@, x)]
               /\ responses' = Append(responses, m)
               /\ ItemsOf(r, m) = <<AsSeen(x)>>
               /\ \A q \in Streams : q # r => ItemsOf(q, m) = << >>
               /\ m.kind \notin {"metrics", "processFailure"}
  <2>1. e \in Kinds \cup {"other"} BY ProcessAssumption
  <2>2. Raised(e) \in Item BY <2>1 DEF Raised, Item
  <2>3. FailureKind(e) \in Kinds BY <2>1 DEF FailureKind, Kinds
  <2>4. StreamFailure(r, FailureKind(e)) \in Message
    BY <2>3 DEF StreamFailure, Raised, Message
  <2>5. AsSeen(Raised(e)) = Raised(RemoteError(FailureKind(e)))
    BY <2>1 DEF AsSeen, Raised, RemoteError, FailureKind, Kinds
  <2>6. /\ ItemsOf(r, StreamFailure(r, FailureKind(e))) = <<AsSeen(Raised(e))>>
        /\ \A q \in Streams : q # r => ItemsOf(q, StreamFailure(r, FailureKind(e))) = << >>
        /\ StreamFailure(r, FailureKind(e)).kind = "failure"
    BY <2>5 DEF ItemsOf, StreamFailure, Raised
  <2> QED BY <1>4, <2>2, <2>4, <2>6
<1> QED BY <1>2, <1>3, <1>4 DEF Forward, n

(* A forwarding task keeps the invariant: what the engine says goes to the *)
(* rest.                                                                   *)
LEMMA ForwardKeeps ==
  ASSUME Invariant, NEW r \in Streams, Forward(r) PROVE Invariant'
<1> USE DEF Invariant
<1>0. Types /\ Entered /\ FailureAlone /\ Flow /\ Times /\ MetricsFresh OBVIOUS
<1>1. PICK x \in Item, m \in Message :
           /\ emitted' = [emitted EXCEPT ![r] = Append(@, x)]
           /\ responses' = Append(responses, m)
           /\ ItemsOf(r, m) = <<AsSeen(x)>>
           /\ \A q \in Streams : q # r => ItemsOf(q, m) = << >>
           /\ m.kind \notin {"metrics", "processFailure"}
  BY ForwardShape
<1>2. /\ UNCHANGED <<registered, queue, consumer, got, call, asked, answer, kept,
                     toServer, toClient, writer>>
      /\ tasks[r] = "running" /\ tasks' \in [Streams -> {"none", "running", "cancelled", "ended"}]
      /\ \A q \in Streams : q # r => tasks'[q] = tasks[q]
  BY <1>0 DEF Types, Forward, clientVars, streamVars, callVars, pipeVars
<1>3. /\ responses \in Batch /\ responses' \in Batch
      /\ \A q : ItemsFor(q, responses') = Cat(ItemsFor(q, responses), ItemsOf(q, m))
      /\ \A q : ItemsFor(q, responses) \in Items
  BY <1>1, ForAppend, ForCat DEF Types
<1>4. /\ emitted'[r] = Append(emitted[r], x)
      /\ \A q \in Streams : q # r => emitted'[q] = emitted[q]
      /\ \A q \in Streams : emitted[q] \in Items
      /\ Append(emitted[r], x) \in Items
      /\ emitted' \in [Streams -> Items]
  BY <1>1, SeenAsAppend DEF Types
<1>5. \A q \in Streams : q # r => ItemsFor(q, responses') = ItemsFor(q, responses)
  BY <1>1, <1>3, CatEmpty DEF Items
<1>6. Types' BY <1>0, <1>2, <1>3, <1>4 DEF Types
<1>7. Entered' BY <1>0, <1>2, <1>4, <1>5 DEF Entered
<1>8. FailureAlone'
  <2>1. ~IsOf("processFailure", responses')
    BY <1>0, <1>1, <1>3 DEF FailureAlone, IsOf, Batch
  <2> QED BY <1>0, <1>2, <2>1 DEF FailureAlone
<1>9. Flow'
  <2> SUFFICES ASSUME NEW q \in registered
               PROVE  \E rest \in Items :
                        /\ Said(q)' = Cat(Cat(Seen(q), SentFor(q, toClient)), rest)
                        /\ writer = "running" => rest = ItemsFor(q, responses')
    BY <1>2 DEF Flow, Seen
  <2>0. q \in Streams BY <1>0 DEF Types
  <2>1. PICK rest \in Items :
          /\ Said(q) = Cat(Cat(Seen(q), SentFor(q, toClient)), rest)
          /\ writer = "running" => rest = ItemsFor(q, responses)
    BY <1>0 DEF Flow
  <2>2. CASE q # r
    <3>1. Said(q)' = Said(q) BY <1>4, <2>0, <2>2 DEF Said
    <3> QED BY <1>5, <2>0, <2>1, <2>2, <3>1
  <2>3. CASE q = r
    <3> DEFINE y == AsSeen(x)
               a == Cat(Seen(q), SentFor(q, toClient))
    <3>1. Said(q)' = SeenAs(emitted'[q]) /\ Said(q) = SeenAs(emitted[q])
      BY <2>0 DEF Said, SeenAs
    <3>2. Said(q)' = Cat(Said(q), <<y>>) /\ y \in Item
      BY <1>4, <2>3, <3>1, SeenAsAppend
    <3>3. a \in Items
      <4>1. got[q] \in Items /\ queue[q] \in Items /\ toClient \in Seq(Batch)
        BY <1>0, <2>0 DEF Types
      <4>2. Seen(q) = Known(Cat(got[q], queue[q])) BY DEF Seen, Cat
      <4>3. Seen(q) \in Items BY <4>1, <4>2, KnownCat
      <4>4. SentFor(q, toClient) \in Items BY <4>1, SentType
      <4> QED BY <4>3, <4>4, CatType DEF Items
    <3>4. <<y>> \in Items BY <3>2 DEF Items
    <3> HIDE DEF y, a
    <3>5. Cat(Cat(a, rest), <<y>>) = Cat(a, Cat(rest, <<y>>))
      BY <3>3, <3>4, CatItems
    <3>6. Cat(rest, <<y>>) \in Items BY <3>4, CatType DEF Items
    <3>7. ItemsFor(q, responses') = Cat(ItemsFor(q, responses), <<y>>)
      BY <1>1, <1>3, <2>3 DEF y
    <3>8. Said(q)' = Cat(a, Cat(rest, <<y>>)) BY <2>1, <3>2, <3>5 DEF a
    <3> QED BY <2>1, <3>6, <3>7, <3>8 DEF a
  <2> QED BY <2>2, <2>3
<1>10. Times'
  <2>1. Timely(call, asked, responses')
    BY <1>0, <1>1, <1>2, <1>3 DEF Times, Timely, Batch
  <2>2. Clock' = Clock BY <1>2 DEF Clock
  <2> QED BY <1>0, <1>2, <2>1, <2>2 DEF Times, Timely
<1>11. MetricsFresh' BY <1>0, <1>2 DEF MetricsFresh
<1> QED BY <1>6, <1>7, <1>8, <1>9, <1>10, <1>11

---------------------------------------------------------------------------
(* Steps that move no item *)

(* The parts of Flow are sequences of items.                               *)
LEMMA SeenType ==
  ASSUME Types, NEW r \in Streams
  PROVE  /\ Seen(r) = Cat(Known(got[r]), Known(queue[r]))
         /\ Known(got[r]) \in Items /\ Known(queue[r]) \in Items
         /\ Seen(r) \in Items /\ SentFor(r, toClient) \in Items
         /\ Cat(Seen(r), SentFor(r, toClient)) \in Items
         /\ ItemsFor(r, responses) \in Items
         /\ emitted[r] \in Items
<1>1. got[r] \in Items /\ queue[r] \in Items /\ toClient \in Seq(Batch)
      /\ responses \in Batch /\ emitted[r] \in Items
  BY DEF Types
<1>2. Seen(r) = Known(Cat(got[r], queue[r])) BY DEF Seen, Cat
<1>3. /\ Seen(r) = Cat(Known(got[r]), Known(queue[r]))
      /\ Known(got[r]) \in Items /\ Known(queue[r]) \in Items
  BY <1>1, <1>2, KnownCat
<1>4. Seen(r) \in Items BY <1>3, CatItems
<1>5. SentFor(r, toClient) \in Items BY <1>1, SentType
<1> QED BY <1>1, <1>3, <1>4, <1>5, CatItems, ForCat

(* Commands come off the pipe, or are put on it; streams and calls stay.   *)
LEMMA CommandsKeep ==
  ASSUME Invariant,
         UNCHANGED <<streamVars, callVars, toClient, responses, writer, emitted>>,
         tasks' \in [Streams -> {"none", "running", "cancelled", "ended"}],
         \A r \in Streams : consumer[r] = "idle" => tasks'[r] = "none",
         toServer' \in Seq(Command),
         \A i \in 1..Len(toServer') :
           \/ toServer'[i] = Shutdown
           \/ \E j \in 1..Len(toServer) : toServer'[i] = toServer[j]
  PROVE  Invariant'
<1>0. Types /\ Entered /\ FailureAlone /\ Flow /\ Times /\ MetricsFresh BY DEF Invariant
<1>1. UNCHANGED <<registered, queue, consumer, got, call, asked, answer, kept, toClient,
                  responses, writer, emitted>>
  BY DEF streamVars, callVars
<1>2. Types' BY <1>0, <1>1 DEF Types
<1>3. Entered'
  <2>1. \A r \in Streams : Shutdown # StartStream(r) BY DEF Shutdown, StartStream
  <2> QED BY <1>0, <1>1, <2>1 DEF Entered
<1>4. FailureAlone' BY <1>0, <1>1 DEF FailureAlone
<1>5. Flow' BY <1>0, <1>1 DEF Flow, Said, Seen
<1>6. Times'
  <2>1. Shutdown.kind # "metrics" BY DEF Shutdown
  <2>2. Clock' = Clock BY <1>1 DEF Clock
  <2> QED BY <1>0, <1>1, <2>1, <2>2 DEF Times, Timely
<1>7. MetricsFresh' BY <1>0, <1>1 DEF MetricsFresh
<1> QED BY <1>2, <1>3, <1>4, <1>5, <1>6, <1>7 DEF Invariant

(* The server says of itself that it has started, or failed: nothing of    *)
(* that is for a stream or a call.                                         *)
LEMMA SayNothing ==
  ASSUME NEW batches \in Seq(Batch), NEW m \in {Started, ProcessFailure}
  PROVE  /\ Append(batches, <<m>>) \in Seq(Batch)
         /\ \A r : SentFor(r, Append(batches, <<m>>)) = SentFor(r, batches)
         /\ Len(Append(batches, <<m>>)) = Len(batches) + 1
         /\ \A i \in 1..Len(batches) : Append(batches, <<m>>)[i] = batches[i]
         /\ Append(batches, <<m>>)[Len(batches) + 1] = <<m>>
<1>1. m \in Message BY NoItems
<1>2. <<m>> \in Batch BY <1>1 DEF Batch
<1>3. \A r : ItemsFor(r, <<m>>) = << >> BY <1>1, ForOne, NoItems
<1>4. \A r : SentFor(r, Append(batches, <<m>>)) = Cat(SentFor(r, batches), << >>)
  BY <1>2, <1>3, SentAppend
<1>5. \A r : SentFor(r, batches) \in Items BY SentType
<1>6. \A r : Cat(SentFor(r, batches), << >>) = SentFor(r, batches) BY <1>5, CatItems
<1> QED BY <1>2, <1>4, <1>6, AppendProperties

(* The process ends: what it had in memory is lost, what it wrote is not.  *)
LEMMA EndKeeps ==
  ASSUME Invariant, Die, UNCHANGED <<streamVars, callVars>>,
         toClient' = toClient \/ toClient' = Append(toClient, <<ProcessFailure>>)
  PROVE  Invariant'
<1>0. Types /\ Entered /\ FailureAlone /\ Flow /\ Times /\ MetricsFresh BY DEF Invariant
<1>1. UNCHANGED <<registered, queue, consumer, got, call, asked, answer, kept, emitted>>
      /\ responses' = << >> /\ toServer' = << >> /\ writer' = "none"
      /\ tasks' = [r \in Streams |-> "none"]
  BY DEF streamVars, callVars, Die
<1>2. toClient \in Seq(Batch) BY <1>0 DEF Types
<1>3. toClient' \in Seq(Batch) /\ \A r : SentFor(r, toClient') = SentFor(r, toClient)
  BY <1>2, SayNothing
<1>4. \A i \in 1..Len(toClient') :
        \/ i \in 1..Len(toClient) /\ toClient'[i] = toClient[i]
        \/ toClient'[i] = <<ProcessFailure>>
  BY <1>2, SayNothing
<1>5. Types' BY <1>0, <1>1, <1>3 DEF Types, Batch
<1>6. Entered' BY <1>0, <1>1, <1>3, ForEmpty DEF Entered
<1>7. FailureAlone' BY <1>0, <1>1, <1>4 DEF FailureAlone, IsOf
<1>8. Flow' BY <1>0, <1>1, <1>3 DEF Flow, Said, Seen
<1>9. Times'
  <2>1. Clock' = Clock BY <1>1 DEF Clock
  <2>2. ASSUME NEW i \in 1..Len(toClient') PROVE Timely(call, asked, toClient'[i])
    <3>1. CASE i \in 1..Len(toClient) /\ toClient'[i] = toClient[i]
      BY <1>0, <3>1 DEF Times
    <3>2. CASE toClient'[i] = <<ProcessFailure>>
      <4>1. Timely(call, asked, <<ProcessFailure>>) BY DEF Timely, ProcessFailure
      <4> QED BY <3>2, <4>1
    <3> QED BY <1>4, <3>1, <3>2
  <2>3. Timely(call, asked, responses') BY <1>1 DEF Timely
  <2> QED BY <1>0, <1>1, <2>1, <2>2, <2>3 DEF Times
<1>10. MetricsFresh' BY <1>0, <1>1 DEF MetricsFresh
<1> QED BY <1>5, <1>6, <1>7, <1>8, <1>9, <1>10 DEF Invariant

(* The start of the server keeps the invariant.                            *)
LEMMA BootKeeps == ASSUME Invariant, Boot PROVE Invariant'
<1>0. Types /\ Entered /\ FailureAlone /\ Flow /\ Times /\ MetricsFresh BY DEF Invariant
<1>1. UNCHANGED <<registered, queue, consumer, got, call, asked, answer, kept, emitted,
                  responses, toServer, writer, tasks>>
      /\ toClient' = Append(toClient, <<Started>>)
  BY DEF streamVars, callVars, Boot
<1>2. toClient \in Seq(Batch) BY <1>0 DEF Types
<1>3. toClient' \in Seq(Batch) /\ \A r : SentFor(r, toClient') = SentFor(r, toClient)
  BY <1>1, <1>2, SayNothing
<1>4. \A i \in 1..Len(toClient') :
        \/ i \in 1..Len(toClient) /\ toClient'[i] = toClient[i]
        \/ toClient'[i] = <<Started>>
  BY <1>1, <1>2, SayNothing
<1>5. Types' BY <1>0, <1>1, <1>3 DEF Types
<1>6. Entered' BY <1>0, <1>1, <1>3 DEF Entered
<1>7. FailureAlone'
  <2>1. ~IsOf("processFailure", <<Started>>) BY DEF IsOf, Started
  <2> QED BY <1>0, <1>1, <1>4, <2>1 DEF FailureAlone
<1>8. Flow'
  <2>1. UNCHANGED <<registered, queue, got, emitted, responses, writer>> BY <1>1
  <2> QED BY <1>0, <1>3, <2>1 DEF Flow, Said, Seen
<1>9. Times'
  <2>1. Clock' = Clock BY <1>1 DEF Clock
  <2>2. ASSUME NEW i \in 1..Len(toClient') PROVE Timely(call, asked, toClient'[i])
    <3>1. CASE i \in 1..Len(toClient) /\ toClient'[i] = toClient[i]
      BY <1>0, <3>1 DEF Times
    <3>2. CASE toClient'[i] = <<Started>>
      <4>1. Timely(call, asked, <<Started>>) BY DEF Timely, Started
      <4> QED BY <3>2, <4>1
    <3> QED BY <1>4, <3>1, <3>2
  <2> QED BY <1>0, <1>1, <2>1, <2>2 DEF Times
<1>10. MetricsFresh' BY <1>0, <1>1 DEF MetricsFresh
<1> QED BY <1>5, <1>6, <1>7, <1>8, <1>9, <1>10 DEF Invariant

(* The writer's queue gets what is for no stream.                          *)
LEMMA QueueKeeps ==
  ASSUME Invariant,
         UNCHANGED <<streamVars, callVars, toClient, writer, emitted, tasks>>,
         toServer' \in Seq(Command),
         \A i \in 1..Len(toServer') :
           \E j \in 1..Len(toServer) : toServer'[i] = toServer[j],
         responses' \in Batch,
         \A r : ItemsFor(r, responses') = ItemsFor(r, responses),
         ~IsOf("processFailure", responses'),
         Timely(call, asked, responses')
  PROVE  Invariant'
<1>0. Types /\ Entered /\ FailureAlone /\ Flow /\ Times /\ MetricsFresh BY DEF Invariant
<1>1. UNCHANGED <<registered, queue, consumer, got, call, asked, answer, kept, toClient,
                  writer, emitted, tasks>>
  BY DEF streamVars, callVars
<1>2. Types' BY <1>0, <1>1 DEF Types
<1>3. Entered' BY <1>0, <1>1 DEF Entered
<1>4. FailureAlone' BY <1>0, <1>1 DEF FailureAlone
<1>5. Flow' BY <1>0, <1>1 DEF Flow, Said, Seen
<1>6. Times'
  <2>1. Clock' = Clock BY <1>1 DEF Clock
  <2> QED BY <1>0, <1>1, <2>1 DEF Times
<1>7. MetricsFresh' BY <1>0, <1>1 DEF MetricsFresh
<1> QED BY <1>2, <1>3, <1>4, <1>5, <1>6, <1>7 DEF Invariant

(* The last messages of the writer are for no stream and no call.          *)
LEMMA CloseRuntimeKeeps == ASSUME Invariant, CloseRuntime PROVE Invariant'
<1>0. Types /\ FailureAlone /\ Times BY DEF Invariant
<1>1. UNCHANGED <<streamVars, callVars, toClient, writer, emitted, tasks, toServer>>
  BY DEF CloseRuntime, pipeVars
<1>2. responses \in Batch /\ toServer \in Seq(Command) BY <1>0 DEF Types
<1>3. Stopped \in Message /\ WriterEnd \in Message
      /\ \A r : ItemsOf(r, Stopped) = << >> /\ ItemsOf(r, WriterEnd) = << >>
  BY NoItems
<1>4. CASE responses' = responses
  BY <1>0, <1>1, <1>2, <1>4, QueueKeeps DEF Times, FailureAlone
<1>5. CASE responses' = responses \o <<Stopped, WriterEnd>>
  <2> DEFINE once == Append(responses, Stopped)
  <2>1. responses' = Append(once, WriterEnd) BY <1>2, <1>3, <1>5 DEF Batch
  <2>2. once \in Batch /\ \A r : ItemsFor(r, once) = Cat(ItemsFor(r, responses), << >>)
    BY <1>2, <1>3, ForAppend
  <2>3. \A i \in 1..Len(once) :
          (i \in 1..Len(responses) /\ once[i] = responses[i]) \/ once[i] = Stopped
    BY <1>2, <1>3 DEF Batch
  <2> HIDE DEF once
  <2>4. responses' \in Batch /\ \A r : ItemsFor(r, responses') = Cat(ItemsFor(r, once), << >>)
    BY <1>3, <2>1, <2>2, ForAppend
  <2>5. \A i \in 1..Len(responses') :
          (i \in 1..Len(once) /\ responses'[i] = once[i]) \/ responses'[i] = WriterEnd
    BY <2>1, <2>2, <1>3 DEF Batch
  <2>6. \A r : ItemsFor(r, responses) \in Items /\ ItemsFor(r, once) \in Items
    BY <1>2, <2>2, ForCat
  <2>7. \A r : ItemsFor(r, responses') = ItemsFor(r, responses)
    BY <2>2, <2>4, <2>6, CatItems
  <2>8. \A i \in 1..Len(responses') :
          \/ i \in 1..Len(responses) /\ responses'[i] = responses[i]
          \/ responses'[i].kind \in {"stopped", "none"}
    BY <2>3, <2>5 DEF Stopped, WriterEnd
  <2>9. ~IsOf("processFailure", responses')
    <3>1. DOMAIN responses' = 1..Len(responses') /\ DOMAIN responses = 1..Len(responses)
      BY <1>2, <2>4 DEF Batch
    <3> QED BY <1>0, <2>8, <3>1 DEF FailureAlone, IsOf
  <2>10. Timely(call, asked, responses') BY <1>0, <2>8 DEF Times, Timely
  <2> QED BY <1>1, <1>2, <2>4, <2>7, <2>9, <2>10, QueueKeeps
<1> QED BY <1>4, <1>5 DEF CloseRuntime

(* A command that is handled keeps the invariant.                          *)
LEMMA PumpKeeps == ASSUME Invariant, Pump PROVE Invariant'
<1>0. Types /\ Entered /\ FailureAlone /\ Times BY DEF Invariant
<1> DEFINE command == Head(toServer)
<1>1. /\ toServer \in Seq(Command) /\ toServer # << >> /\ toServer' = Tail(toServer)
      /\ UNCHANGED <<streamVars, callVars, toClient, writer, emitted>>
  BY <1>0 DEF Types, Pump
<1>2. /\ toServer' \in Seq(Command) /\ command \in Command /\ command = toServer[1]
      /\ 1 \in 1..Len(toServer)
      /\ \A i \in 1..Len(toServer') :
           \E j \in 1..Len(toServer) : toServer'[i] = toServer[j]
  <2>1. /\ Len(toServer') = Len(toServer) - 1 /\ Len(toServer) \in Nat /\ Len(toServer) # 0
        /\ \A i \in 1..Len(toServer') : toServer'[i] = toServer[i + 1]
        /\ toServer' \in Seq(Command) /\ command \in Command /\ command = toServer[1]
    BY <1>1, HeadTailProperties
  <2> QED BY <2>1
<1> HIDE DEF command
<1>3. CASE command.kind = "metrics" /\ UNCHANGED tasks
           /\ responses' = Append(responses, MetricsResult(command.id, Clock))
  <2> DEFINE m == MetricsResult(command.id, Clock)
  <2>1. command.id \in Calls /\ call[command.id] # "idle" /\ asked[command.id] =< Clock
    <3>1. command.id \in Calls BY <1>2, <1>3 DEF Command, Shutdown
    <3> QED BY <1>0, <1>2, <1>3, <3>1 DEF Times
  <2>2. Clock \in Nat BY ClockNat
  <2>3. m \in Message /\ m.kind = "metrics" /\ m.id = command.id /\ m.value = Clock
    BY <2>1, <2>2 DEF MetricsResult, Message
  <2> HIDE DEF m
  <2>4. \A r : ItemsOf(r, m) = << >> BY <2>3 DEF ItemsOf
  <2>5. responses \in Batch BY <1>0 DEF Types
  <2>6. /\ responses' \in Batch
        /\ \A r : ItemsFor(r, responses') = Cat(ItemsFor(r, responses), << >>)
        /\ \A r : ItemsFor(r, responses) \in Items
    BY <1>3, <2>3, <2>4, <2>5, ForAppend, ForCat DEF m
  <2>7. \A r : ItemsFor(r, responses') = ItemsFor(r, responses) BY <2>6, CatItems
  <2>8. \A i \in 1..Len(responses') :
          (i \in 1..Len(responses) /\ responses'[i] = responses[i]) \/ responses'[i] = m
    BY <1>3, <2>3, <2>5 DEF m, Batch
  <2>9. ~IsOf("processFailure", responses')
    <3>1. DOMAIN responses' = 1..Len(responses') /\ DOMAIN responses = 1..Len(responses)
      BY <2>5, <2>6 DEF Batch
    <3> QED BY <1>0, <2>3, <2>8, <3>1 DEF FailureAlone, IsOf
  <2>10. Timely(call, asked, responses') BY <1>0, <2>1, <2>3, <2>8 DEF Times, Timely
  <2> QED BY <1>1, <1>2, <1>3, <2>6, <2>7, <2>9, <2>10, QueueKeeps
<1>4. CASE /\ UNCHANGED responses
           /\ tasks' \in [Streams -> {"none", "running", "cancelled", "ended"}]
           /\ \A r \in Streams : consumer[r] = "idle" => tasks'[r] = "none"
  BY <1>1, <1>2, <1>4, CommandsKeep
<1>5. CASE command.kind = "start" /\ tasks' = [tasks EXCEPT ![command.id] = "running"]
           /\ UNCHANGED responses
  <2>1. command.id \in Streams /\ command = StartStream(command.id)
    BY <1>2, <1>5 DEF Command, Shutdown, StartStream
  <2>2. consumer[command.id] # "idle" BY <1>0, <1>2, <2>1 DEF Entered
  <2> QED BY <1>0, <1>4, <1>5, <2>2 DEF Types, Entered
<1>6. CASE /\ tasks' = [tasks EXCEPT ![command.id] = IF @ = "running" THEN "cancelled" ELSE @]
           /\ UNCHANGED responses
  BY <1>0, <1>4, <1>6 DEF Types, Entered
<1>7. CASE Drain /\ UNCHANGED responses
  BY <1>0, <1>4, <1>7 DEF Types, Entered, Drain
<1> QED BY <1>3, <1>5, <1>6, <1>7 DEF Pump, command

(* The batch that is written holds all that is for a stream or a call.     *)
LEMMA WriteShape ==
  ASSUME Types, Write
  PROVE  \E b \in Batch :
           /\ \A r : ItemsFor(r, b) = ItemsFor(r, responses)
           /\ \A i \in 1..Len(b) : i \in 1..Len(responses) /\ b[i] = responses[i]
           /\ \/ /\ toClient' = IF b = << >> THEN toClient ELSE Append(toClient, b)
                 /\ writer' \in {"running", "done"}
              \/ toClient' = toClient /\ writer' = "failed"
<1>1. responses \in Batch /\ responses # << >> BY DEF Types, Write
<1>2. CASE Last(responses) = WriterEnd
  <2>1. PICK b \in Batch, m \in Message : b = Front(responses) /\ m = Last(responses)
                                          /\ responses = Append(b, m)
    BY <1>1, FrontLastProps DEF Batch
  <2>2. \A r : ItemsFor(r, responses) = Cat(ItemsFor(r, b), << >>)
    <3>1. \A r : ItemsFor(r, Append(b, m)) = Cat(ItemsFor(r, b), ItemsOf(r, m))
      BY ForAppend
    <3>2. m = WriterEnd /\ responses = Append(b, m) BY <1>2, <2>1
    <3>3. \A r : ItemsOf(r, m) = << >> BY <3>2, NoItems
    <3> QED BY <3>1, <3>2, <3>3, Zenon
  <2>3. \A r : ItemsFor(r, b) \in Items BY ForCat
  <2>4. \A r : ItemsFor(r, b) = ItemsFor(r, responses) BY <2>2, <2>3, CatItems
  <2>5. \A i \in 1..Len(b) : i \in 1..Len(responses) /\ b[i] = responses[i]
    BY <2>1 DEF Batch
  <2>6. \/ /\ toClient' = IF b = << >> THEN toClient ELSE Append(toClient, b)
           /\ writer' = "done"
        \/ toClient' = toClient /\ writer' = "failed"
    BY <1>2, <2>1 DEF Write
  <2> QED BY <2>4, <2>5, <2>6
<1>3. CASE Last(responses) # WriterEnd
  <2>1. \/ /\ toClient' = IF responses = << >> THEN toClient ELSE Append(toClient, responses)
           /\ writer' = "running"
        \/ toClient' = toClient /\ writer' = "failed"
    BY <1>3 DEF Write
  <2>2. \A i \in 1..Len(responses) : i \in 1..Len(responses) /\ responses[i] = responses[i]
    OBVIOUS
  <2> QED BY <1>1, <2>1, <2>2
<1> QED BY <1>2, <1>3

(* A write moves the rest to the pipe, or the writer fails and nothing     *)
(* more is promised.                                                       *)
LEMMA WriteKeeps == ASSUME Invariant, Write PROVE Invariant'
<1>0. Types /\ Entered /\ FailureAlone /\ Flow /\ Times /\ MetricsFresh BY DEF Invariant
<1>1. UNCHANGED <<registered, queue, consumer, got, call, asked, answer, kept, emitted,
                  toServer, tasks>>
      /\ responses' = << >> /\ writer = "running"
  BY DEF streamVars, callVars, Write
<1>2. PICK b \in Batch :
           /\ \A r : ItemsFor(r, b) = ItemsFor(r, responses)
           /\ \A i \in 1..Len(b) : i \in 1..Len(responses) /\ b[i] = responses[i]
           /\ \/ /\ toClient' = IF b = << >> THEN toClient ELSE Append(toClient, b)
                 /\ writer' \in {"running", "done"}
              \/ toClient' = toClient /\ writer' = "failed"
  BY <1>0, WriteShape
<1>3. toClient \in Seq(Batch) /\ responses \in Batch BY <1>0 DEF Types
<1>4. \A r : SentFor(r, toClient) \in Items /\ ItemsFor(r, responses) \in Items
  BY <1>3, SentType, ForCat
<1>5. toClient' \in Seq(Batch)
  BY <1>2, <1>3, AppendProperties
<1>6. ASSUME NEW i \in 1..Len(toClient')
      PROVE  (i \in 1..Len(toClient) /\ toClient'[i] = toClient[i]) \/ toClient'[i] = b
  BY <1>2, <1>3, AppendProperties
<1>7. \/ writer' = "failed" /\ toClient' = toClient
      \/ \A r : SentFor(r, toClient') = Cat(SentFor(r, toClient), ItemsFor(r, responses))
  <2>1. CASE toClient' = Append(toClient, b)
    <3>1. \A r : SentFor(r, Append(toClient, b)) = Cat(SentFor(r, toClient), ItemsFor(r, b))
      BY <1>3, SentAppend
    <3> QED BY <1>2, <2>1, <3>1
  <2>2. CASE toClient' = toClient /\ b = << >>
    <3>1. \A r : ItemsFor(r, responses) = << >> BY <1>2, <2>2, ForEmpty
    <3>2. \A r : Cat(SentFor(r, toClient), << >>) = SentFor(r, toClient) BY <1>4, CatItems
    <3> QED BY <2>2, <3>1, <3>2
  <2> QED BY <1>2, <2>1, <2>2
<1>8. Types' BY <1>0, <1>1, <1>5 DEF Types, Batch
<1>9. Entered'
  <2>1. \A r : ItemsFor(r, responses') = << >> BY <1>1, ForEmpty
  <2>2. \A r : SentFor(r, toClient) = << >> /\ ItemsFor(r, responses) = << >> =>
               SentFor(r, toClient') = << >>
    <3>0. << >> \in Items BY DEF Items
    <3>1. Cat(<< >>, << >>) = << >> BY <3>0, CatItems
    <3> QED BY <1>7, <3>1
  <2> QED BY <1>0, <1>1, <2>1, <2>2 DEF Entered
<1>10. FailureAlone'
  <2>1. ~IsOf("processFailure", responses') BY <1>1 DEF IsOf
  <2>2. ~IsOf("processFailure", b)
    <3>1. DOMAIN b = 1..Len(b) /\ DOMAIN responses = 1..Len(responses)
      BY <1>3 DEF Batch
    <3> QED BY <1>0, <1>2, <3>1 DEF FailureAlone, IsOf
  <2> QED BY <1>0, <1>6, <2>1, <2>2 DEF FailureAlone
<1>11. Flow'
  <2> SUFFICES ASSUME NEW q \in registered
               PROVE  \E rest \in Items :
                        /\ Said(q)' = Cat(Cat(Seen(q)', SentFor(q, toClient')), rest)
                        /\ writer' = "running" => rest = ItemsFor(q, responses')
    BY <1>1 DEF Flow
  <2>0. q \in Streams BY <1>0 DEF Types
  <2>1. PICK rest \in Items :
          /\ Said(q) = Cat(Cat(Seen(q), SentFor(q, toClient)), rest)
          /\ rest = ItemsFor(q, responses)
    BY <1>0, <1>1 DEF Flow
  <2>2. Said(q)' = Said(q) /\ Seen(q)' = Seen(q) BY <1>1 DEF Said, Seen
  <2>3. CASE writer' = "failed" /\ toClient' = toClient BY <2>1, <2>2, <2>3
  <2>4. CASE SentFor(q, toClient') = Cat(SentFor(q, toClient), ItemsFor(q, responses))
    <3>1. Seen(q) \in Items BY <1>0, <2>0, SeenType
    <3>2. Said(q) = Cat(Seen(q), SentFor(q, toClient'))
      BY <1>4, <2>1, <2>4, <3>1, CatItems
    <3>3. SentFor(q, toClient') \in Items BY <1>5, SentType
    <3>4. Said(q) = Cat(Cat(Seen(q), SentFor(q, toClient')), << >>) /\ << >> \in Items
      BY <3>1, <3>2, <3>3, CatItems
    <3>5. ItemsFor(q, responses') = << >> BY <1>1, ForEmpty
    <3> QED BY <2>2, <3>4, <3>5
  <2> QED BY <1>7, <2>3, <2>4
<1>12. Times'
  <2>1. Clock' = Clock BY <1>1 DEF Clock
  <2>2. Timely(call, asked, b) BY <1>0, <1>2 DEF Times, Timely
  <2>3. Timely(call, asked, responses') BY <1>1 DEF Timely
  <2> QED BY <1>0, <1>1, <1>6, <2>1, <2>2, <2>3 DEF Times
<1>13. MetricsFresh' BY <1>0, <1>1 DEF MetricsFresh
<1> QED BY <1>8, <1>9, <1>10, <1>11, <1>12, <1>13 DEF Invariant

---------------------------------------------------------------------------
(* The client's calls *)

CallStates == {"idle", "ready", "waiting", "answered", "failed", "done"}

(* A step of the client on its calls disturbs no stream.                   *)
LEMMA CallsKeep ==
  ASSUME Invariant,
         UNCHANGED <<streamVars, toClient, responses, writer, emitted, tasks>>,
         call' \in [Calls -> CallStates], asked' \in [Calls -> Nat],
         answer' \in [Calls -> Nat], toServer' \in Seq(Command),
         \A i \in 1..Len(toServer') :
           \/ \E j \in 1..Len(toServer) : toServer'[i] = toServer[j]
           \/ \E c \in Calls : toServer'[i] = ReadMetrics(c) /\ call'[c] # "idle",
         \A c \in Calls : call[c] # "idle" => call'[c] # "idle" /\ asked'[c] =< asked[c],
         \A c \in Calls : call'[c] # "idle" => asked'[c] =< Clock',
         MetricsFresh'
  PROVE  Invariant'
<1>0. Types /\ Entered /\ FailureAlone /\ Flow /\ Times BY DEF Invariant
<1>1. UNCHANGED <<registered, queue, consumer, got, toClient, responses, writer,
                  emitted, tasks>>
  BY DEF streamVars
<1>2. Types' BY <1>0, <1>1 DEF Types, CallStates
<1>3. Entered'
  <2>1. \A r \in Streams, c \in Calls : ReadMetrics(c) # StartStream(r)
    BY DEF ReadMetrics, StartStream
  <2> QED BY <1>0, <1>1, <2>1 DEF Entered
<1>4. FailureAlone' BY <1>0, <1>1 DEF FailureAlone
<1>5. Flow' BY <1>0, <1>1 DEF Flow, Said, Seen
<1>6. Times'
  <2>1. ASSUME NEW b \in Batch, Timely(call, asked, b) PROVE Timely(call', asked', b)
    <3> SUFFICES ASSUME NEW i \in 1..Len(b), b[i].kind = "metrics"
                 PROVE  call'[b[i].id] # "idle" /\ asked'[b[i].id] =< b[i].value
      BY DEF Timely
    <3>1. b[i] \in Message BY DEF Batch
    <3>2. b[i].id \in Calls /\ b[i].value \in Nat
      BY <3>1 DEF Message, Started, ProcessFailure, Stopped, WriterEnd
    <3>3. call[b[i].id] # "idle" /\ asked[b[i].id] =< b[i].value BY <2>1 DEF Timely
    <3>4. asked[b[i].id] \in Nat /\ asked'[b[i].id] \in Nat BY <1>0, <3>2 DEF Types
    <3> QED BY <3>2, <3>3, <3>4
  <2>2. Timely(call', asked', responses') BY <1>0, <1>1, <2>1 DEF Types, Times
  <2>3. \A i \in 1..Len(toClient') : Timely(call', asked', toClient'[i])
    BY <1>0, <1>1, <2>1 DEF Types, Times
  <2>4. \A i \in 1..Len(toServer') :
          toServer'[i].kind = "metrics" => call'[toServer'[i].id] # "idle"
    <3> SUFFICES ASSUME NEW i \in 1..Len(toServer'), toServer'[i].kind = "metrics"
                 PROVE  call'[toServer'[i].id] # "idle"
      OBVIOUS
    <3>1. CASE \E c \in Calls : toServer'[i] = ReadMetrics(c) /\ call'[c] # "idle"
      BY <3>1 DEF ReadMetrics
    <3>2. ASSUME NEW j \in 1..Len(toServer), toServer'[i] = toServer[j]
          PROVE  call'[toServer'[i].id] # "idle"
      <4>1. toServer[j] \in Command BY <1>0 DEF Types
      <4>2. toServer[j].id \in Calls BY <3>2, <4>1 DEF Command, Shutdown
      <4>3. call[toServer[j].id] # "idle" BY <1>0, <3>2 DEF Times
      <4> QED BY <3>2, <4>2, <4>3
    <3> QED BY <3>1, <3>2
  <2> QED BY <2>2, <2>3, <2>4 DEF Times
<1> QED BY <1>2, <1>3, <1>4, <1>5, <1>6 DEF Invariant

(* A call that is made moves the clock.                                    *)
LEMMA CallCounted ==
  ASSUME NEW c \in Calls, call[c] = "idle", NEW t, t # "idle",
         call \in [Calls -> CallStates],
         call' = [call EXCEPT ![c] = t], UNCHANGED consumer
  PROVE  Clock' = Clock + 1
<1> DEFINE S == {d \in Calls : call[d] # "idle"}
<1>1. {d \in Calls : call'[d] # "idle"} = S \cup {c} OBVIOUS
<1>2. c \notin S OBVIOUS
<1>3. IsFiniteSet(S)
  <2>1. Calls = 1..MaxOperations /\ 1 \in Int /\ MaxOperations \in Int
    BY ProcessAssumption DEF Calls
  <2>2. IsFiniteSet(Calls) BY <2>1, FS_Interval
  <2> QED BY <2>2, FS_Subset
<1> HIDE DEF S
<1>4. Cardinality(S \cup {c}) = Cardinality(S) + 1 BY <1>2, <1>3, FS_AddElement
<1>5. {r \in Streams : consumer'[r] # "idle"} = {r \in Streams : consumer[r] # "idle"}
  OBVIOUS
<1>6. Clock' = Cardinality({r \in Streams : consumer[r] # "idle"}) + Cardinality(S \cup {c})
  BY <1>1, <1>5, Zenon DEF Clock
<1>7. Clock = Cardinality({r \in Streams : consumer[r] # "idle"}) + Cardinality(S)
  BY Zenon DEF Clock, S
<1>8. Cardinality(S) \in Nat BY <1>3, FS_CardinalityType
<1>9. Cardinality({r \in Streams : consumer[r] # "idle"}) \in Nat BY StreamsNat
<1> QED BY <1>4, <1>6, <1>7, <1>8, <1>9

(* A call that only reads what is kept asks nothing.                       *)
LEMMA ReadKeptKeeps ==
  ASSUME Invariant, NEW c \in Calls, ReadKept(c) PROVE Invariant'
<1>0. Types /\ Times /\ MetricsFresh BY DEF Invariant
<1>1. /\ call[c] = "idle" /\ call' = [call EXCEPT ![c] = "done"]
      /\ asked' = [asked EXCEPT ![c] = 0]
      /\ UNCHANGED <<streamVars, answer, kept, toServer, toClient, responses, writer,
                     emitted, tasks>>
  BY DEF ReadKept, NextCall, pipeVars, serverVars
<1>2. Clock \in Nat BY ClockNat
<1>3. Clock' = Clock + 1
  <2>1. call \in [Calls -> CallStates] BY <1>0 DEF Types, CallStates
  <2>2. UNCHANGED consumer BY <1>1 DEF streamVars
  <2>3. call[c] = "idle" /\ call' = [call EXCEPT ![c] = "done"] /\ "done" # "idle"
    BY <1>1
  <2> QED BY ONLY c \in Calls, <2>1, <2>2, <2>3, CallCounted
<1>4. call' \in [Calls -> CallStates] /\ asked' \in [Calls -> Nat]
  BY <1>0, <1>1 DEF Types, CallStates
<1>5. \A d \in Calls : call[d] # "idle" => call'[d] # "idle" /\ asked'[d] =< asked[d]
  BY <1>0, <1>1 DEF Types
<1>6. \A d \in Calls : call'[d] # "idle" => asked'[d] =< Clock'
  BY <1>0, <1>1, <1>2, <1>3 DEF Types, Times
<1>7. MetricsFresh' BY <1>0, <1>1 DEF Types, MetricsFresh
<1> QED BY <1>0, <1>1, <1>4, <1>5, <1>6, <1>7, CallsKeep DEF Types

(* A call is made, one later than all before it.                           *)
LEMMA AskMetricsKeeps ==
  ASSUME Invariant, NEW c \in Calls, AskMetrics(c) PROVE Invariant'
<1>0. Types /\ Times /\ MetricsFresh BY DEF Invariant
<1>1. /\ call[c] = "idle" /\ call' = [call EXCEPT ![c] = "ready"]
      /\ asked' = [asked EXCEPT ![c] = Clock + 1]
      /\ UNCHANGED <<streamVars, answer, kept, toServer, toClient, responses, writer,
                     emitted, tasks>>
  BY DEF AskMetrics, NextCall, pipeVars, serverVars
<1>2. Clock \in Nat BY ClockNat
<1>3. Clock' = Clock + 1
  <2>1. call \in [Calls -> CallStates] BY <1>0 DEF Types, CallStates
  <2>2. UNCHANGED consumer BY <1>1 DEF streamVars
  <2>3. call[c] = "idle" /\ call' = [call EXCEPT ![c] = "ready"] /\ "ready" # "idle"
    BY <1>1
  <2> QED BY ONLY c \in Calls, <2>1, <2>2, <2>3, CallCounted
<1>4. call' \in [Calls -> CallStates] /\ asked' \in [Calls -> Nat]
  BY <1>0, <1>1, <1>2 DEF Types, CallStates
<1>5. \A d \in Calls : call[d] # "idle" => call'[d] # "idle" /\ asked'[d] =< asked[d]
  BY <1>0, <1>1 DEF Types
<1>6. \A d \in Calls : call'[d] # "idle" => asked'[d] =< Clock'
  BY <1>0, <1>1, <1>2, <1>3 DEF Types, Times
<1>7. MetricsFresh' BY <1>0, <1>1 DEF Types, MetricsFresh
<1> QED BY <1>0, <1>1, <1>4, <1>5, <1>6, <1>7, CallsKeep DEF Types

(* A call that was made keeps the clock where it is.                       *)
LEMMA SameClock ==
  ASSUME UNCHANGED consumer,
         \A c \in Calls : call'[c] # "idle" <=> call[c] # "idle"
  PROVE  Clock' = Clock
<1>1. {c \in Calls : call'[c] # "idle"} = {c \in Calls : call[c] # "idle"} OBVIOUS
<1> QED BY <1>1, Zenon DEF Clock

(* A call that is sent was made.                                           *)
LEMMA SendReadMetricsKeeps ==
  ASSUME Invariant, NEW c \in Calls, SendReadMetrics(c) PROVE Invariant'
<1>0. Types /\ Times /\ MetricsFresh BY DEF Invariant
<1>1. /\ call[c] = "ready"
      /\ call' = [call EXCEPT ![c] = IF CanSend THEN "waiting" ELSE "done"]
      /\ toServer' = IF CanSend THEN Append(toServer, ReadMetrics(c)) ELSE toServer
      /\ UNCHANGED <<streamVars, asked, answer, kept, toClient, responses, writer,
                     emitted, tasks>>
  BY DEF SendReadMetrics, serverVars
<1>2. call' \in [Calls -> CallStates] /\ call'[c] # "idle"
      /\ \A d \in Calls : d # c => call'[d] = call[d]
  BY <1>0, <1>1 DEF Types, CallStates
<1>3. toServer' \in Seq(Command)
  <2>1. ReadMetrics(c) \in Command BY DEF ReadMetrics, Command
  <2> QED BY <1>0, <1>1, <2>1, AppendProperties DEF Types
<1>4. \A i \in 1..Len(toServer') :
           \/ \E j \in 1..Len(toServer) : toServer'[i] = toServer[j]
           \/ toServer'[i] = ReadMetrics(c) /\ call'[c] # "idle"
  <2>1. toServer \in Seq(Command) /\ ReadMetrics(c) \in Command
    BY <1>0 DEF Types, ReadMetrics, Command
  <2> QED BY <1>1, <1>2, <2>1, AppendProperties
<1>5. \A d \in Calls : call'[d] # "idle" <=> call[d] # "idle" BY <1>1, <1>2
<1>6. Clock' = Clock BY <1>1, <1>5, SameClock DEF streamVars
<1>7. \A d \in Calls : call[d] # "idle" => call'[d] # "idle" /\ asked'[d] =< asked[d]
  BY <1>0, <1>1, <1>5 DEF Types
<1>8. \A d \in Calls : call'[d] # "idle" => asked'[d] =< Clock'
  BY <1>0, <1>1, <1>5, <1>6 DEF Times
<1>9. MetricsFresh' BY <1>0, <1>1, <1>2 DEF MetricsFresh
<1>10. asked' \in [Calls -> Nat] /\ answer' \in [Calls -> Nat] BY <1>0, <1>1 DEF Types
<1> QED BY <1>1, <1>2, <1>3, <1>4, <1>7, <1>8, <1>9, <1>10, CallsKeep

(* A call that returns forgets its answer.                                 *)
LEMMA ReturnMetricsKeeps ==
  ASSUME Invariant, NEW c \in Calls, ReturnMetrics(c) PROVE Invariant'
<1>0. Types /\ Times /\ MetricsFresh BY DEF Invariant
<1>1. /\ call[c] \in {"waiting", "answered", "failed"}
      /\ call' = [call EXCEPT ![c] = "done"]
      /\ asked' = [asked EXCEPT ![c] = 0] /\ answer' = [answer EXCEPT ![c] = 0]
      /\ kept' = Kept(c)
      /\ UNCHANGED <<streamVars, toServer, toClient, responses, writer, emitted, tasks>>
  BY DEF ReturnMetrics, serverVars, pipeVars
<1>2. /\ call' \in [Calls -> CallStates] /\ asked' \in [Calls -> Nat]
      /\ answer' \in [Calls -> Nat]
  BY <1>0, <1>1 DEF Types, CallStates
<1>3. \A d \in Calls : call'[d] # "idle" <=> call[d] # "idle" BY <1>0, <1>1 DEF Types
<1>4. Clock' = Clock /\ Clock \in Nat BY <1>1, <1>3, SameClock, ClockNat DEF streamVars
<1>5. \A d \in Calls : asked'[d] =< asked[d] /\ (d # c => asked'[d] = asked[d])
  BY <1>0, <1>1 DEF Types
<1>6. \A d \in Calls : call'[d] # "idle" => asked'[d] =< Clock'
  BY <1>0, <1>1, <1>3, <1>4, <1>5 DEF Types, Times
<1>7. MetricsFresh'
  <2>1. \A d \in Calls : call'[d] = "answered" => asked'[d] =< answer'[d]
    BY <1>0, <1>1 DEF Types, MetricsFresh
  <2>2. \A k \in kept' : k.asked =< k.taken BY <1>0, <1>1 DEF Kept, MetricsFresh
  <2> QED BY <2>1, <2>2 DEF MetricsFresh
<1>8. toServer' \in Seq(Command) BY <1>0, <1>1 DEF Types
<1> QED BY <1>1, <1>2, <1>3, <1>5, <1>6, <1>7, <1>8, CallsKeep

---------------------------------------------------------------------------
(* The client's streams *)

(* A step of the client on its streams disturbs neither the server nor a   *)
(* call: it keeps the invariant if it keeps the parts about streams.       *)
LEMMA StreamsKeep ==
  ASSUME Invariant,
         UNCHANGED <<callVars, toClient, responses, writer, emitted, tasks>>,
         Types', Entered', Flow',
         \A i \in 1..Len(toServer') :
           \/ \E j \in 1..Len(toServer) : toServer'[i] = toServer[j]
           \/ toServer'[i].kind # "metrics",
         Clock =< Clock'
  PROVE  Invariant'
<1>0. Types /\ FailureAlone /\ Times /\ MetricsFresh BY DEF Invariant
<1>1. UNCHANGED <<call, asked, answer, kept, toClient, responses>> BY DEF callVars
<1>2. FailureAlone' BY <1>0, <1>1 DEF FailureAlone
<1>3. MetricsFresh' BY <1>0, <1>1 DEF MetricsFresh
<1>4. Times'
  <2>1. Clock \in Nat /\ Clock' \in Int
    <3>1. Clock' \in Nat BY <1>1, ClockNatNext
    <3> QED BY <3>1, ClockNat
  <2>2. \A c \in Calls : call'[c] # "idle" => asked'[c] =< Clock'
    BY <1>0, <1>1, <2>1 DEF Types, Times
  <2>3. \A i \in 1..Len(toServer') : toServer'[i].kind = "metrics" =>
          call'[toServer'[i].id] # "idle"
    BY <1>0, <1>1 DEF Times
  <2> QED BY <1>0, <1>1, <2>2, <2>3 DEF Times
<1> QED BY <1>2, <1>3, <1>4 DEF Invariant

(* What is to be read of a sequence follows its first element.             *)
LEMMA HeadFirst ==
  ASSUME NEW s \in Items, s # << >>
  PROVE  /\ s = Cat(<<Head(s)>>, Tail(s))
         /\ Head(s) \in Item /\ <<Head(s)>> \in Items /\ Tail(s) \in Items
<1>1. Head(s) \in Item /\ Tail(s) \in Seq(Item) /\ <<Head(s)>> \in Seq(Item)
  BY DEF Items
<1>2. s = <<Head(s)>> \o Tail(s) BY DEF Items
<1> QED BY <1>1, <1>2 DEF Items, Cat

(* A generator that ends leaves nothing behind in the client.              *)
LEMMA LeaveKeeps ==
  ASSUME Invariant, NEW r \in Streams, NEW finished \in BOOLEAN, consumer[r] = "open",
         LeaveStream(r, finished), UNCHANGED <<clientVars, callVars, toClient, serverVars>>
  PROVE  Invariant'
<1>0. Types /\ Entered /\ Flow BY DEF Invariant
<1>1. /\ UNCHANGED <<call, asked, answer, kept, toClient, responses, writer, emitted, tasks>>
      /\ consumer' = [consumer EXCEPT ![r] = "ended"]
      /\ registered' = registered \ {r}
      /\ queue' = [queue EXCEPT ![r] = << >>] /\ got' = [got EXCEPT ![r] = << >>]
      /\ (toServer' = toServer \/ toServer' = Append(toServer, CancelStream(r)))
  BY DEF LeaveStream, callVars, serverVars
<1>2. toServer \in Seq(Command) /\ CancelStream(r) \in Command
  BY <1>0 DEF Types, Command, CancelStream
<1>3. toServer' \in Seq(Command)
      /\ \A i \in 1..Len(toServer') :
           \/ \E j \in 1..Len(toServer) : toServer'[i] = toServer[j]
           \/ toServer'[i] = CancelStream(r)
  <2>1. CASE toServer' = toServer BY <1>2, <2>1
  <2>2. CASE toServer' = Append(toServer, CancelStream(r))
    BY <1>2, <2>2, AppendProperties
  <2> QED BY <1>1, <2>1, <2>2
<1>4. /\ consumer' \in [Streams -> {"idle", "open", "ended"}] /\ consumer'[r] = "ended"
      /\ queue' \in [Streams -> Items] /\ got' \in [Streams -> Items]
      /\ queue'[r] = << >> /\ got'[r] = << >>
      /\ \A q \in Streams : q # r =>
           consumer'[q] = consumer[q] /\ queue'[q] = queue[q] /\ got'[q] = got[q]
  <2>1. << >> \in Items BY DEF Items
  <2> QED BY <1>0, <1>1, <2>1 DEF Types
<1>5. Types' BY <1>0, <1>1, <1>3, <1>4 DEF Types
<1>6. Entered'
  <2>1. \A q \in Streams : CancelStream(r) # StartStream(q) BY DEF CancelStream, StartStream
  <2> QED BY <1>0, <1>1, <1>3, <1>4, <2>1 DEF Entered
<1>7. Flow'
  <2> SUFFICES ASSUME NEW q \in registered'
               PROVE  \E rest \in Items :
                        /\ Said(q)' = Cat(Cat(Seen(q)', SentFor(q, toClient')), rest)
                        /\ writer' = "running" => rest = ItemsFor(q, responses')
    BY DEF Flow
  <2>1. q \in registered /\ q # r /\ q \in Streams BY <1>0, <1>1 DEF Types
  <2>2. Said(q)' = Said(q) BY <1>1 DEF Said
  <2>3. Seen(q)' = Seen(q) BY <1>4, <2>1 DEF Seen
  <2> QED BY <1>0, <1>1, <2>1, <2>2, <2>3 DEF Flow
<1>8. Clock' = Clock
  <2>1. {q \in Streams : consumer'[q] # "idle"} = {q \in Streams : consumer[q] # "idle"}
    BY <1>4
  <2> QED BY <1>1, <2>1, Zenon DEF Clock
<1>9. Clock =< Clock' BY <1>8, ClockNat
<1>10. CancelStream(r).kind # "metrics" BY DEF CancelStream
<1> QED BY <1>1, <1>3, <1>5, <1>6, <1>7, <1>9, <1>10, StreamsKeep DEF callVars

(* The consumer takes a token: what it has seen and is to see stays.       *)
LEMMA TakeKeeps ==
  ASSUME Invariant, NEW r \in Streams, consumer[r] = "open", queue[r] # << >>,
         got' = [got EXCEPT ![r] = Append(@, Head(queue[r]))],
         queue' = [queue EXCEPT ![r] = Tail(@)],
         UNCHANGED <<registered, consumer, toServer>>,
         UNCHANGED <<clientVars, callVars, toClient, serverVars>>
  PROVE  Invariant'
<1>0. Types /\ Entered /\ Flow BY DEF Invariant
<1>1. UNCHANGED <<registered, consumer, toServer, call, asked, answer, kept, toClient, responses,
                  writer, emitted, tasks>>
  BY DEF callVars, serverVars
<1> DEFINE g == got[r]
           s == queue[r]
           h == <<Head(s)>>
<1>2. g \in Items /\ s \in Items /\ s # << >> BY <1>0 DEF Types
<1>3. s = Cat(h, Tail(s)) /\ Head(s) \in Item /\ h \in Items /\ Tail(s) \in Items
  BY <1>2, HeadFirst
<1>4. Append(g, Head(s)) = Cat(g, h) /\ Cat(g, h) \in Items
  <2>1. Append(g, Head(s)) = Cat(g, h)
    <3>1. g \in Seq(Item) BY <1>2 DEF Items
    <3> HIDE DEF g, s
    <3> QED BY <1>3, <3>1, CatOne
  <2>2. Cat(g, h) \in Items BY <1>2, <1>3, CatItems
  <2> QED BY <2>1, <2>2
<1>5. /\ got'[r] = Cat(g, h) /\ queue'[r] = Tail(s)
      /\ got' \in [Streams -> Items] /\ queue' \in [Streams -> Items]
      /\ \A q \in Streams : q # r => queue'[q] = queue[q] /\ got'[q] = got[q]
  BY <1>0, <1>3, <1>4 DEF Types
<1> HIDE DEF g, s, h
<1>6. Types' BY <1>0, <1>1, <1>5 DEF Types
<1>7. Entered'
  <2>1. r \in registered BY <1>0 DEF Entered
  <2> QED BY <1>0, <1>1, <1>5, <2>1 DEF Entered
<1>8. Flow'
  <2> SUFFICES ASSUME NEW q \in registered
               PROVE  \E rest \in Items :
                        /\ Said(q)' = Cat(Cat(Seen(q)', SentFor(q, toClient')), rest)
                        /\ writer' = "running" => rest = ItemsFor(q, responses')
    BY <1>1 DEF Flow
  <2>0. q \in Streams BY <1>0 DEF Types
  <2>1. Said(q)' = Said(q) BY <1>1 DEF Said
  <2>2. Seen(q)' = Seen(q)
    <3>1. CASE q # r BY <1>5, <2>0, <3>1 DEF Seen
    <3>2. CASE q = r
      <4>1. Seen(q) = Known(Cat(g, s)) BY <3>2 DEF Seen, Cat, g, s
      <4>2. Seen(q)' = Known(Cat(Cat(g, h), Tail(s))) BY <1>5, <3>2 DEF Seen, Cat
      <4>3. Cat(Cat(g, h), Tail(s)) = Cat(g, Cat(h, Tail(s))) BY <1>2, <1>3, CatItems
      <4> QED BY <1>3, <4>1, <4>2, <4>3, Zenon
    <3> QED BY <3>1, <3>2
  <2> QED BY <1>0, <1>1, <2>1, <2>2 DEF Flow
<1>9. Clock =< Clock'
  <2>1. Clock' = Clock BY <1>1 DEF Clock
  <2> QED BY <2>1, ClockNat
<1>10. \A i \in 1..Len(toServer') : \E j \in 1..Len(toServer) : toServer'[i] = toServer[j]
  BY <1>1
<1> QED BY <1>1, <1>6, <1>7, <1>8, <1>9, <1>10, StreamsKeep DEF callVars

(* A consumer that takes an item keeps the invariant.                      *)
LEMMA ConsumeKeeps ==
  ASSUME Invariant, NEW r \in Streams, Consume(r) PROVE Invariant'
<1>1. CASE LeaveStream(r, TRUE) BY <1>1, LeaveKeeps DEF Consume
<1>2. CASE LeaveStream(r, FALSE) BY <1>2, LeaveKeeps DEF Consume
<1>3. CASE /\ got' = [got EXCEPT ![r] = Append(@, Head(queue[r]))]
           /\ queue' = [queue EXCEPT ![r] = Tail(@)]
           /\ UNCHANGED <<registered, consumer, toServer>>
  BY <1>3, TakeKeeps DEF Consume
<1> QED BY <1>1, <1>2, <1>3 DEF Consume

(* So does one that goes away.                                             *)
LEMMA AbandonKeeps ==
  ASSUME Invariant, NEW r \in Streams, Abandon(r) PROVE Invariant'
  BY LeaveKeeps DEF Abandon

(* A new stream has no trace anywhere.                                     *)
LEMMA OpenStreamKeeps ==
  ASSUME Invariant, NEW r \in Streams, OpenStream(r) PROVE Invariant'
<1>0. Types /\ Entered /\ Flow BY DEF Invariant
<1>1. /\ UNCHANGED <<call, asked, answer, kept, toClient, responses, writer, emitted, tasks,
                     queue, got>>
      /\ consumer[r] = "idle"
      /\ consumer' = [consumer EXCEPT ![r] = IF CanSend THEN "open" ELSE "ended"]
      /\ registered' = registered \cup {r}
      /\ (toServer' = toServer \/ toServer' = Append(toServer, StartStream(r)))
  BY DEF OpenStream, callVars, serverVars
<1>2. toServer \in Seq(Command) /\ StartStream(r) \in Command
  BY <1>0 DEF Types, Command, StartStream
<1>3. toServer' \in Seq(Command)
      /\ \A i \in 1..Len(toServer') :
           \/ \E j \in 1..Len(toServer) : toServer'[i] = toServer[j]
           \/ toServer'[i] = StartStream(r)
  <2>1. CASE toServer' = toServer BY <1>2, <2>1
  <2>2. CASE toServer' = Append(toServer, StartStream(r))
    BY <1>2, <2>2, AppendProperties
  <2> QED BY <1>1, <2>1, <2>2
<1>4. /\ consumer' \in [Streams -> {"idle", "open", "ended"}] /\ consumer'[r] # "idle"
      /\ \A q \in Streams : q # r => consumer'[q] = consumer[q]
  BY <1>0, <1>1 DEF Types
<1>5. Types' BY <1>0, <1>1, <1>3, <1>4 DEF Types
<1>6. Entered'
  <2>1. \A q \in Streams : q # r => StartStream(r) # StartStream(q) BY DEF StartStream
  <2>2. \A q \in Streams : consumer'[q] = "idle" => consumer[q] = "idle" /\ q # r
    BY <1>4
  <2>3. \A q \in Streams : consumer'[q] = "idle" =>
          \A i \in 1..Len(toServer') : toServer'[i] # StartStream(q)
    BY <1>0, <1>3, <2>1, <2>2 DEF Entered
  <2>4. r \in registered' /\ \A q \in Streams : q # r => (q \in registered' <=> q \in registered)
    BY <1>1
  <2> QED BY <1>0, <1>1, <1>4, <2>2, <2>3, <2>4 DEF Entered
<1>7. Flow'
  <2> SUFFICES ASSUME NEW q \in registered'
               PROVE  \E rest \in Items :
                        /\ Said(q)' = Cat(Cat(Seen(q)', SentFor(q, toClient')), rest)
                        /\ writer' = "running" => rest = ItemsFor(q, responses')
    BY DEF Flow
  <2>1. Said(q)' = Said(q) /\ Seen(q)' = Seen(q) BY <1>1 DEF Said, Seen
  <2>2. CASE q \in registered BY <1>0, <1>1, <2>1, <2>2 DEF Flow
  <2>3. CASE q \notin registered
    <3>1. /\ q = r /\ got[q] = << >> /\ queue[q] = << >> /\ emitted[q] = << >>
          /\ SentFor(q, toClient) = << >> /\ ItemsFor(q, responses) = << >>
      BY <1>0, <1>1, <2>3 DEF Entered
    <3>2. << >> \in Items BY DEF Items
    <3>3. Cat(<< >>, << >>) = << >> BY <3>2, CatItems
    <3>4. Said(q) = << >> BY <3>1 DEF Said
    <3>5. Seen(q) = << >>
      <4>1. Seen(q) = Known(Cat(<< >>, << >>)) BY <3>1 DEF Seen, Cat
      <4>2. LostError \in Item BY DEF Item, LostError, Raised
      <4> QED BY <3>3, <4>1, <4>2, KnownOne
    <3>6. Said(q)' = Cat(Cat(Seen(q)', SentFor(q, toClient')), << >>)
      BY <1>1, <2>1, <3>1, <3>3, <3>4, <3>5
    <3> QED BY <1>1, <3>1, <3>2, <3>6
  <2> QED BY <2>2, <2>3
<1>8. Clock =< Clock'
  <2> DEFINE S == {q \in Streams : consumer[q] # "idle"}
             T == {q \in Streams : consumer'[q] # "idle"}
  <2>1. S \subseteq T /\ T \subseteq Streams BY <1>4
  <2>2. IsFiniteSet(T) BY <2>1, StreamsNat, FS_Subset
  <2>3. Cardinality(S) \in Nat /\ Cardinality(T) \in Nat /\ Cardinality(S) =< Cardinality(T)
    BY <2>1, <2>2, Later
  <2>4. {c \in Calls : call'[c] # "idle"} = {c \in Calls : call[c] # "idle"} BY <1>1
  <2>5. IsFiniteSet({c \in Calls : call[c] # "idle"})
    <3>1. Calls = 1..MaxOperations /\ 1 \in Int /\ MaxOperations \in Int
      BY ProcessAssumption DEF Calls
    <3>2. IsFiniteSet(Calls) BY <3>1, FS_Interval
    <3> QED BY <3>2, FS_Subset
  <2>6. Cardinality({c \in Calls : call[c] # "idle"}) \in Nat BY <2>5, FS_CardinalityType
  <2>7. Clock' = Cardinality(T) + Cardinality({c \in Calls : call[c] # "idle"})
    BY <2>4, Zenon DEF Clock, T
  <2>8. Clock = Cardinality(S) + Cardinality({c \in Calls : call[c] # "idle"})
    BY Zenon DEF Clock, S
  <2> HIDE DEF S, T
  <2> QED BY <2>3, <2>6, <2>7, <2>8
<1>9. StartStream(r).kind # "metrics" BY DEF StartStream
<1> QED BY <1>1, <1>3, <1>5, <1>6, <1>7, <1>8, <1>9, StreamsKeep DEF callVars

---------------------------------------------------------------------------
(* The client's reader *)

(* The client is told of a failure, or not: the loss is no item to see.    *)
LEMMA FailKeeps ==
  ASSUME Invariant,
         UNCHANGED <<registered, consumer, got, asked, answer, kept, toServer, responses,
                     writer, emitted, tasks>>,
         FailAll \/ UNCHANGED <<queue, call>>,
         toClient' \in Seq(Batch),
         \A r : SentFor(r, toClient') = SentFor(r, toClient),
         \A i \in 1..Len(toClient') :
           \E j \in 1..Len(toClient) : toClient'[i] = toClient[j]
  PROVE  Invariant'
<1>0. Types /\ Entered /\ FailureAlone /\ Flow /\ Times /\ MetricsFresh BY DEF Invariant
<1>1. /\ \A q \in Streams : queue'[q] = queue[q] \/ queue'[q] = Cat(queue[q], <<LostError>>)
      /\ \A q \in Streams : q \notin registered => queue'[q] = queue[q]
      /\ queue' \in [Streams -> Items]
  <2>0. LostError \in Item BY DEF Item, LostError, Raised
  <2>1. \A q \in Streams : queue[q] \in Items BY <1>0 DEF Types
  <2>2. \A q \in Streams : /\ Append(queue[q], LostError) \in Items
                           /\ Append(queue[q], LostError) = Cat(queue[q], <<LostError>>)
    BY <2>0, <2>1, CatOne, AppendProperties DEF Items
  <2>3. CASE UNCHANGED queue BY <1>0, <2>3 DEF Types
  <2>4. CASE queue' = [r \in Streams |-> IF r \in registered
                                         THEN Append(queue[r], LostError) ELSE queue[r]]
    BY <2>1, <2>2, <2>4
  <2> QED BY <2>3, <2>4 DEF FailAll
<1>2. /\ \A c \in Calls : call'[c] = call[c] \/ (call'[c] = "failed" /\ call[c] # "idle")
      /\ call' \in [Calls -> CallStates]
  <2>1. call \in [Calls -> CallStates] BY <1>0 DEF Types, CallStates
  <2>2. CASE UNCHANGED call BY <2>1, <2>2
  <2>3. CASE call' = [c \in Calls |-> IF Waiting(c) THEN "failed" ELSE call[c]]
    <3>1. \A c \in Calls : Waiting(c) => call[c] # "idle" BY DEF Waiting
    <3>2. "failed" \in CallStates BY DEF CallStates
    <3> QED BY <2>1, <2>3, <3>1, <3>2
  <2> QED BY <2>2, <2>3 DEF FailAll
<1>3. Types' BY <1>0, <1>1, <1>2 DEF Types, CallStates
<1>4. Entered' BY <1>0, <1>1 DEF Entered
<1>5. FailureAlone' BY <1>0 DEF FailureAlone
<1>6. Flow'
  <2> SUFFICES ASSUME NEW q \in registered
               PROVE  \E rest \in Items :
                        /\ Said(q)' = Cat(Cat(Seen(q)', SentFor(q, toClient')), rest)
                        /\ writer' = "running" => rest = ItemsFor(q, responses')
    BY DEF Flow
  <2>0. q \in Streams BY <1>0 DEF Types
  <2>1. Said(q)' = Said(q) BY DEF Said
  <2>2. Seen(q)' = Seen(q)
    <3>1. got[q] \in Items /\ queue[q] \in Items /\ queue'[q] \in Items
      BY <1>0, <1>1, <2>0 DEF Types
    <3>2. Seen(q) = Cat(Known(got[q]), Known(queue[q])) BY <1>0, <2>0, SeenType
    <3>3. Seen(q)' = Known(Cat(got[q], queue'[q])) BY DEF Seen, Cat
    <3>4. Seen(q)' = Cat(Known(got[q]), Known(queue'[q])) BY <3>1, <3>3, KnownCat
    <3>5. Known(queue'[q]) = Known(queue[q])
      <4>1. CASE queue'[q] = queue[q] BY <4>1
      <4>2. CASE queue'[q] = Cat(queue[q], <<LostError>>)
        <5>1. LostError \in Item BY DEF Item, LostError, Raised
        <5>2. <<LostError>> \in Items BY <5>1 DEF Items
        <5>3. Known(<<LostError>>) = << >> BY <5>1, KnownOne
        <5>4. Known(queue'[q]) = Cat(Known(queue[q]), << >>) /\ Known(queue[q]) \in Items
          BY <3>1, <4>2, <5>2, <5>3, KnownCat
        <5> QED BY <5>4, CatItems
      <4> QED BY <1>1, <2>0, <4>1, <4>2
    <3> QED BY <3>2, <3>4, <3>5
  <2> QED BY <1>0, <2>1, <2>2 DEF Flow
<1>7. \A c \in Calls : call'[c] # "idle" <=> call[c] # "idle" BY <1>2
<1>8. Clock' = Clock BY <1>7, SameClock
<1>9. ASSUME NEW b \in Batch, Timely(call, asked, b) PROVE Timely(call', asked', b)
  <2> SUFFICES ASSUME NEW i \in 1..Len(b), b[i].kind = "metrics"
               PROVE  call'[b[i].id] # "idle" /\ asked'[b[i].id] =< b[i].value
    BY DEF Timely
  <2>1. b[i] \in Message BY DEF Batch
  <2>2. b[i].id \in Calls
    BY <2>1 DEF Message, Started, ProcessFailure, Stopped, WriterEnd
  <2> QED BY <1>7, <1>9, <2>2 DEF Timely
<1>10. Times'
  <2>1. Timely(call', asked', responses') BY <1>0, <1>9 DEF Types, Times
  <2>2. \A i \in 1..Len(toClient') : Timely(call', asked', toClient'[i])
    BY <1>0, <1>9 DEF Types, Times
  <2>3. \A i \in 1..Len(toServer') : toServer'[i].kind = "metrics" =>
          call'[toServer'[i].id] # "idle"
    <3> SUFFICES ASSUME NEW i \in 1..Len(toServer), toServer[i].kind = "metrics"
                 PROVE  call'[toServer[i].id] # "idle"
      OBVIOUS
    <3>1. toServer[i] \in Command BY <1>0 DEF Types
    <3>2. toServer[i].id \in Calls BY <3>1 DEF Command, Shutdown
    <3> QED BY <1>0, <1>7, <3>2 DEF Times
  <2> QED BY <1>0, <1>7, <1>8, <2>1, <2>2, <2>3 DEF Times
<1>11. MetricsFresh' BY <1>0, <1>2 DEF MetricsFresh
<1> QED BY <1>3, <1>4, <1>5, <1>6, <1>10, <1>11 DEF Invariant

(* The loss of the connection keeps the invariant.                         *)
LEMMA LostKeeps == ASSUME Invariant, Lost PROVE Invariant'
<1>0. Types BY DEF Invariant
<1>1. UNCHANGED <<registered, consumer, got, asked, answer, kept, toServer, responses,
                  writer, emitted, tasks, toClient>>
  BY DEF Lost, pipeVars, serverVars
<1>2. FailAll \/ UNCHANGED <<queue, call>> BY DEF Lost
<1>3. toClient' \in Seq(Batch) BY <1>0, <1>1 DEF Types
<1>4. \A r : SentFor(r, toClient') = SentFor(r, toClient) BY <1>1
<1>5. \A i \in 1..Len(toClient') : \E j \in 1..Len(toClient) : toClient'[i] = toClient[j]
  BY <1>1
<1> QED BY <1>1, <1>2, <1>3, <1>4, <1>5, FailKeeps

(* What a batch answers to a call is no older than the call.               *)
LEMMA AnswersTimely ==
  ASSUME NEW c \in Calls, NEW b \in Batch, Timely(call, asked, b)
  PROVE  \A v \in Answers(c, b) : v \in Nat /\ call[c] # "idle" /\ asked[c] =< v
<1> SUFFICES ASSUME NEW i \in DOMAIN b, b[i].kind = "metrics", b[i].id = c
             PROVE  b[i].value \in Nat /\ call[c] # "idle" /\ asked[c] =< b[i].value
  BY DEF Answers
<1>1. b[i] \in Message /\ i \in 1..Len(b) BY DEF Batch
<1>2. b[i].value \in Nat BY <1>1 DEF Message, Started, ProcessFailure, Stopped, WriterEnd
<1> QED BY <1>1, <1>2 DEF Timely

(* A batch that tells of no failure goes to the queues and the calls.      *)
LEMMA DeliverKeeps ==
  ASSUME Invariant, Dispatch, ~IsOf("processFailure", Head(toClient)) PROVE Invariant'
<1>0. Types /\ Entered /\ FailureAlone /\ Flow /\ Times /\ MetricsFresh BY DEF Invariant
<1> DEFINE batch == Head(toClient)
<1>1. /\ toClient # << >> /\ toClient' = Tail(toClient)
      /\ queue' = StreamQueues(batch)
      /\ call' = [c \in Calls |-> IF call[c] = "waiting" /\ Answers(c, batch) # {}
                                  THEN "answered" ELSE call[c]]
      /\ answer' = [c \in Calls |-> IF Waiting(c) /\ Answers(c, batch) # {}
                                    THEN CHOOSE v \in Answers(c, batch) : TRUE
                                    ELSE answer[c]]
      /\ kept' = IF IsOf("started", batch) THEN {KeptAtStart} ELSE kept
      /\ UNCHANGED <<registered, consumer, got, asked, toServer, responses, writer,
                     emitted, tasks>>
  BY DEF Dispatch, serverVars
<1>2. toClient \in Seq(Batch) BY <1>0 DEF Types
<1>3. /\ batch \in Batch /\ toClient' \in Seq(Batch)
      /\ \A r : SentFor(r, toClient) = Cat(ItemsFor(r, batch), SentFor(r, toClient'))
  BY <1>1, <1>2, SentHead
<1>4. /\ batch = toClient[1] /\ 1 \in 1..Len(toClient)
      /\ \A i \in 1..Len(toClient') : \E j \in 1..Len(toClient) : toClient'[i] = toClient[j]
  <2>1. /\ Len(toClient') = Len(toClient) - 1 /\ Len(toClient) \in Nat /\ Len(toClient) # 0
        /\ \A i \in 1..Len(toClient') : toClient'[i] = toClient[i + 1]
        /\ batch = toClient[1]
    BY <1>1, <1>2, HeadTailProperties
  <2> HIDE DEF batch
  <2>2. 1 \in 1..Len(toClient) BY <2>1
  <2>3. \A i \in 1..Len(toClient') : i + 1 \in 1..Len(toClient) BY <2>1
  <2> QED BY <2>1, <2>2, <2>3
<1>5. Timely(call, asked, batch) BY <1>0, <1>4 DEF Times
<1> HIDE DEF batch
<1>6. \A r : ItemsFor(r, batch) \in Items /\ SentFor(r, toClient') \in Items
  BY <1>3, ForCat, SentType
<1>7. /\ \A q \in registered : queue'[q] = Cat(queue[q], ItemsFor(q, batch))
      /\ \A q \in Streams : q \notin registered => queue'[q] = queue[q]
      /\ queue' \in [Streams -> Items]
  <2>1. registered \subseteq Streams /\ \A q \in Streams : queue[q] \in Items
    BY <1>0 DEF Types
  <2>2. queue' = [r \in Streams |-> IF r \in registered
                                    THEN Cat(queue[r], ItemsFor(r, batch)) ELSE queue[r]]
    BY <1>1 DEF StreamQueues, Cat
  <2>3. \A q \in Streams : Cat(queue[q], ItemsFor(q, batch)) \in Items
    BY <1>6, <2>1, CatItems
  <2> QED BY <2>1, <2>2, <2>3
<1>8. /\ \A c \in Calls : call'[c] = call[c] \/ (call'[c] = "answered" /\ call[c] = "waiting")
      /\ call' \in [Calls -> CallStates]
  <2>1. call \in [Calls -> CallStates] BY <1>0 DEF Types, CallStates
  <2>2. "answered" \in CallStates BY DEF CallStates
  <2> QED BY <1>1, <2>1, <2>2
<1>9. ASSUME NEW c \in Calls
      PROVE  \/ /\ answer'[c] \in Nat /\ call[c] # "idle" /\ asked[c] =< answer'[c]
             \/ answer'[c] = answer[c] /\ (Answers(c, batch) = {} \/ ~Waiting(c))
  <2>1. CASE Waiting(c) /\ Answers(c, batch) # {}
    <3>1. answer'[c] \in Answers(c, batch) BY <1>1, <2>1
    <3> QED BY <1>3, <1>5, <3>1, AnswersTimely
  <2>2. CASE ~(Waiting(c) /\ Answers(c, batch) # {}) BY <1>1, <2>2
  <2> QED BY <2>1, <2>2
<1>10. answer' \in [Calls -> Nat]
  <2>1. \A c \in Calls : answer'[c] \in Nat BY <1>0, <1>9 DEF Types
  <2>2. answer' = [c \in Calls |-> answer'[c]] BY <1>1
  <2> QED BY <2>1, <2>2
<1>11. Types' BY <1>0, <1>1, <1>3, <1>7, <1>8, <1>10 DEF Types, CallStates
<1>12. Entered'
  <2>1. \A q \in Streams : SentFor(q, toClient) = << >> => SentFor(q, toClient') = << >>
    <3> SUFFICES ASSUME NEW q \in Streams, SentFor(q, toClient) = << >>
                 PROVE  SentFor(q, toClient') = << >>
      OBVIOUS
    <3> DEFINE a == ItemsFor(q, batch)
               b == SentFor(q, toClient')
    <3>1. a \in Seq(Item) /\ b \in Seq(Item) BY <1>6 DEF Items
    <3>2. Cat(a, b) = << >> BY <1>3
    <3> HIDE DEF a, b
    <3>3. Len(Cat(a, b)) = Len(a) + Len(b) BY <3>1, CatShape
    <3>4. Len(b) = 0 BY <3>1, <3>2, <3>3
    <3>5. b = << >> BY <3>1, <3>4
    <3> QED BY <3>5 DEF b
  <2> QED BY <1>0, <1>1, <1>7, <2>1 DEF Entered
<1>13. FailureAlone' BY <1>0, <1>1, <1>4 DEF FailureAlone
<1>14. Flow'
  <2> SUFFICES ASSUME NEW q \in registered
               PROVE  \E rest \in Items :
                        /\ Said(q)' = Cat(Cat(Seen(q)', SentFor(q, toClient')), rest)
                        /\ writer' = "running" => rest = ItemsFor(q, responses')
    BY <1>1 DEF Flow
  <2>0. q \in Streams BY <1>0 DEF Types
  <2>1. Said(q)' = Said(q) BY <1>1 DEF Said
  <2> DEFINE a == ItemsFor(q, batch)
             b == SentFor(q, toClient')
             s == Seen(q)
  <2>2. a \in Items /\ b \in Items /\ s \in Items BY <1>0, <1>6, <2>0, SeenType
  <2>3. Seen(q)' = Cat(s, a)
    <3>1. got[q] \in Items /\ queue[q] \in Items BY <1>0, <2>0 DEF Types
    <3>2. Cat(queue[q], a) \in Items BY <2>2, <3>1, CatItems
    <3>3. Seen(q)' = Known(Cat(got[q], Cat(queue[q], a)))
      <4>1. Seen(q)' = Known(Cat(got'[q], queue'[q])) BY DEF Seen, Cat
      <4> QED BY <1>1, <1>7, <4>1
    <3>4. Cat(got[q], Cat(queue[q], a)) = Cat(Cat(got[q], queue[q]), a)
      <4>1. \A c \in Items : Cat(Cat(got[q], queue[q]), c) = Cat(got[q], Cat(queue[q], c))
        BY <3>1, CatItems
      <4> QED BY <2>2, <4>1, Zenon
    <3>5. Cat(got[q], queue[q]) \in Items BY <3>1, CatItems
    <3>6. Known(Cat(Cat(got[q], queue[q]), a)) = Cat(Known(Cat(got[q], queue[q])), Known(a))
      BY <2>2, <3>5, KnownCat
    <3>7. Known(a) = a BY <1>3, KnownItems
    <3>8. s = Known(Cat(got[q], queue[q])) BY DEF Seen, Cat
    <3> QED BY <3>3, <3>4, <3>6, <3>7, <3>8, Zenon
  <2>4. Cat(s, SentFor(q, toClient)) = Cat(Cat(s, a), b)
    BY <1>3, <2>2, CatItems
  <2> HIDE DEF a, b, s
  <2>5. PICK rest \in Items :
          /\ Said(q) = Cat(Cat(Seen(q), SentFor(q, toClient)), rest)
          /\ writer = "running" => rest = ItemsFor(q, responses)
    BY <1>0 DEF Flow
  <2>6. Said(q)' = Cat(Cat(Seen(q)', SentFor(q, toClient')), rest)
    BY <2>1, <2>3, <2>4, <2>5, Zenon DEF b, s
  <2> QED BY <1>1, <2>5, <2>6
<1>15. \A c \in Calls : call'[c] # "idle" <=> call[c] # "idle" BY <1>8
<1>16. Clock' = Clock BY <1>1, <1>15, SameClock
<1>17. ASSUME NEW d \in Batch, Timely(call, asked, d) PROVE Timely(call', asked', d)
  <2> SUFFICES ASSUME NEW i \in 1..Len(d), d[i].kind = "metrics"
               PROVE  call'[d[i].id] # "idle" /\ asked'[d[i].id] =< d[i].value
    BY DEF Timely
  <2>1. d[i] \in Message BY DEF Batch
  <2>2. d[i].id \in Calls
    BY <2>1 DEF Message, Started, ProcessFailure, Stopped, WriterEnd
  <2> QED BY <1>1, <1>15, <1>17, <2>2 DEF Timely
<1>18. Times'
  <2>1. Timely(call', asked', responses') BY <1>0, <1>1, <1>17 DEF Types, Times
  <2>2. \A i \in 1..Len(toClient') : Timely(call', asked', toClient'[i])
    <3>1. \A j \in 1..Len(toClient) : toClient[j] \in Batch BY <1>2
    <3> QED BY <1>0, <1>4, <1>17, <3>1 DEF Times
  <2>3. \A i \in 1..Len(toServer') : toServer'[i].kind = "metrics" =>
          call'[toServer'[i].id] # "idle"
    <3> SUFFICES ASSUME NEW i \in 1..Len(toServer), toServer[i].kind = "metrics"
                 PROVE  call'[toServer[i].id] # "idle"
      BY <1>1
    <3>1. toServer[i] \in Command BY <1>0 DEF Types
    <3>2. toServer[i].id \in Calls BY <3>1 DEF Command, Shutdown
    <3> QED BY <1>0, <1>15, <3>2 DEF Times
  <2> QED BY <1>0, <1>1, <1>15, <1>16, <2>1, <2>2, <2>3 DEF Times
<1>19. MetricsFresh'
  <2>0. \A k \in kept' : k.asked =< k.taken
    BY <1>0, <1>1 DEF MetricsFresh, KeptAtStart
  <2> SUFFICES ASSUME NEW c \in Calls, call'[c] = "answered" PROVE asked[c] =< answer'[c]
    BY <1>1, <2>0 DEF MetricsFresh
  <2>1. CASE call[c] = "answered" BY <1>0, <1>9, <2>1 DEF MetricsFresh
  <2>2. CASE call[c] # "answered"
    <3>1. Waiting(c) /\ Answers(c, batch) # {} BY <1>1, <2>2 DEF Waiting
    <3> QED BY <1>9, <3>1
  <2> QED BY <2>1, <2>2
<1> QED BY <1>11, <1>12, <1>13, <1>14, <1>18, <1>19 DEF Invariant

(* A batch that is dispatched moves from the pipe to the queues.           *)
LEMMA DispatchKeeps == ASSUME Invariant, Dispatch PROVE Invariant'
<1>1. CASE ~IsOf("processFailure", Head(toClient)) BY <1>1, DeliverKeeps
<1>2. CASE IsOf("processFailure", Head(toClient))
  <2>0. Types /\ FailureAlone BY DEF Invariant
  <2>1. /\ toClient # << >> /\ toClient' = Tail(toClient) /\ FailAll
        /\ UNCHANGED <<registered, consumer, got, asked, answer, kept, toServer, responses,
                       writer, emitted, tasks>>
    BY <1>2 DEF Dispatch, serverVars
  <2>2. toClient \in Seq(Batch) BY <2>0 DEF Types
  <2>3. /\ toClient' \in Seq(Batch)
        /\ \A r : SentFor(r, toClient) = Cat(ItemsFor(r, Head(toClient)), SentFor(r, toClient'))
    BY <2>1, <2>2, SentHead
  <2>4. /\ Len(toClient') = Len(toClient) - 1 /\ Len(toClient) \in Nat /\ Len(toClient) # 0
        /\ \A i \in 1..Len(toClient') : toClient'[i] = toClient[i + 1]
        /\ Head(toClient) = toClient[1]
    BY <2>1, <2>2, HeadTailProperties
  <2>5. Head(toClient) = <<ProcessFailure>> BY <1>2, <2>0, <2>4 DEF FailureAlone
  <2>6. \A r : ItemsFor(r, Head(toClient)) = << >> BY <2>5, NoItems, ForOne
  <2>7. \A r : SentFor(r, toClient') \in Items BY <2>3, SentType
  <2>8. \A r : SentFor(r, toClient') = SentFor(r, toClient) BY <2>3, <2>6, <2>7, CatItems
  <2>9. \A i \in 1..Len(toClient') : \E j \in 1..Len(toClient) : toClient'[i] = toClient[j]
    BY <2>4
  <2> QED BY <2>1, <2>3, <2>8, <2>9, FailKeeps
<1> QED BY <1>1, <1>2

---------------------------------------------------------------------------
(* The steps that only close, stop or wake *)

(* Closing and waking move nothing but a command.                          *)
LEMMA StopKeeps ==
  ASSUME Invariant, CloseBegins \/ CloseConnection \/ PumpWoken PROVE Invariant'
<1>0. Types /\ Entered BY DEF Invariant
<1>1. UNCHANGED <<streamVars, callVars, toClient, responses, writer, emitted>>
  BY DEF CloseBegins, CloseConnection, PumpWoken, serverVars, pipeVars
<1>2. toServer' = toServer \/ toServer' = Append(toServer, Shutdown)
  BY DEF CloseBegins, CloseConnection, PumpWoken, pipeVars
<1>3. tasks' = tasks \/ Drain BY DEF CloseBegins, CloseConnection, PumpWoken, serverVars
<1>4. toServer \in Seq(Command) /\ Shutdown \in Command BY <1>0 DEF Types, Command
<1>5. toServer' \in Seq(Command)
      /\ \A i \in 1..Len(toServer') :
           \/ toServer'[i] = Shutdown
           \/ \E j \in 1..Len(toServer) : toServer'[i] = toServer[j]
  <2>1. CASE toServer' = toServer BY <1>4, <2>1
  <2>2. CASE toServer' = Append(toServer, Shutdown) BY <1>4, <2>2, AppendProperties
  <2> QED BY <1>2, <2>1, <2>2
<1>6. /\ tasks' \in [Streams -> {"none", "running", "cancelled", "ended"}]
      /\ \A r \in Streams : consumer[r] = "idle" => tasks'[r] = "none"
  <2>1. CASE tasks' = tasks BY <1>0, <2>1 DEF Types, Entered
  <2>2. CASE Drain BY <1>0, <2>2 DEF Types, Entered, Drain
  <2> QED BY <1>3, <2>1, <2>2
<1> QED BY <1>1, <1>5, <1>6, CommandsKeep

(* A cancelled task says nothing.                                          *)
LEMMA ForwardCancelledKeeps ==
  ASSUME Invariant, NEW r \in Streams, ForwardCancelled(r) PROVE Invariant'
<1>0. Types /\ Entered BY DEF Invariant
<1>1. /\ UNCHANGED <<streamVars, callVars, toClient, responses, writer, emitted>>
      /\ toServer' = toServer
      /\ tasks[r] = "cancelled" /\ tasks' = [tasks EXCEPT ![r] = "ended"]
  BY DEF ForwardCancelled, pipeVars
<1>2. /\ tasks' \in [Streams -> {"none", "running", "cancelled", "ended"}]
      /\ \A q \in Streams : consumer[q] = "idle" => tasks'[q] = "none"
  BY <1>0, <1>1 DEF Types, Entered
<1>3. toServer' \in Seq(Command)
      /\ \A i \in 1..Len(toServer') : \E j \in 1..Len(toServer) : toServer'[i] = toServer[j]
  BY <1>0, <1>1 DEF Types
<1> QED BY <1>1, <1>2, <1>3, CommandsKeep

(* The process ends by itself, is terminated or dies.                      *)
LEMMA GoneKeeps ==
  ASSUME Invariant, JoinProcess \/ BootFails \/ Crash \/ CloseAbruptly \/ EndServer
  PROVE  Invariant'
<1>1. Die BY DEF JoinProcess, BootFails, Crash, CloseAbruptly, EndServer, Exit
<1>2. UNCHANGED <<streamVars, callVars>>
  BY DEF JoinProcess, BootFails, Crash, CloseAbruptly, EndServer
<1>3. toClient' = toClient \/ toClient' = Append(toClient, <<ProcessFailure>>)
  BY DEF JoinProcess, BootFails, Crash, CloseAbruptly, EndServer, Exit
<1> QED BY <1>1, <1>2, <1>3, EndKeeps

---------------------------------------------------------------------------
(* The theorems *)

(* The invariant holds before anything was done ...                        *)
LEMMA InitInvariant == Init => Invariant
<1> SUFFICES ASSUME Init PROVE Invariant OBVIOUS
<1>1. /\ registered = {} /\ queue = [r \in Streams |-> << >>]
      /\ consumer = [r \in Streams |-> "idle"] /\ got = [r \in Streams |-> << >>]
      /\ call = [c \in Calls |-> "idle"] /\ asked = [c \in Calls |-> 0]
      /\ answer = [c \in Calls |-> 0] /\ kept = {} /\ toServer = << >> /\ toClient = << >>
      /\ tasks = [r \in Streams |-> "none"] /\ responses = << >>
      /\ emitted = [r \in Streams |-> << >>]
  BY DEF Init
<1>2. Types BY <1>1 DEF Types, Items, Batch
<1>3. Entered BY <1>1, SentEmpty, ForEmpty DEF Entered
<1>4. FailureAlone BY <1>1 DEF FailureAlone, IsOf
<1>5. Flow BY <1>1 DEF Flow
<1>6. Times BY <1>1 DEF Times, Timely
<1>7. MetricsFresh BY <1>1 DEF MetricsFresh
<1> QED BY <1>2, <1>3, <1>4, <1>5, <1>6, <1>7 DEF Invariant

(* ... and every step keeps it.                                            *)
LEMMA NextInvariant == Invariant /\ [Next]_vars => Invariant'
<1> SUFFICES ASSUME Invariant, [Next]_vars PROVE Invariant' OBVIOUS
<1>1. CASE UNCHANGED vars
  <2>1. UNCHANGED <<registered, queue, consumer, got, call, asked, answer, kept, toServer,
                    toClient, tasks, responses, writer, emitted>>
    BY <1>1 DEF vars, streamVars, callVars, pipeVars, serverVars
  <2>2. Types' BY <2>1 DEF Invariant, Types
  <2>3. Entered' BY <2>1 DEF Invariant, Entered
  <2>4. FailureAlone' BY <2>1 DEF Invariant, FailureAlone
  <2>5. Flow' BY <2>1 DEF Invariant, Flow, Said, Seen
  <2>6. Times'
    <3>1. Clock' = Clock BY <2>1 DEF Clock
    <3> QED BY <2>1, <3>1 DEF Invariant, Times
  <2>7. MetricsFresh' BY <2>1 DEF Invariant, MetricsFresh
  <2> QED BY <2>2, <2>3, <2>4, <2>5, <2>6, <2>7 DEF Invariant
<1>2. ASSUME NEW r \in Streams, OpenStream(r) PROVE Invariant' BY <1>2, OpenStreamKeeps
<1>3. ASSUME NEW r \in Streams, Consume(r) PROVE Invariant' BY <1>3, ConsumeKeeps
<1>4. ASSUME NEW r \in Streams, Abandon(r) PROVE Invariant' BY <1>4, AbandonKeeps
<1>5. ASSUME NEW c \in Calls, AskMetrics(c) PROVE Invariant' BY <1>5, AskMetricsKeeps
<1>5a. ASSUME NEW c \in Calls, ReadKept(c) PROVE Invariant' BY <1>5a, ReadKeptKeeps
<1>6. ASSUME NEW c \in Calls, SendReadMetrics(c) PROVE Invariant'
  BY <1>6, SendReadMetricsKeeps
<1>7. ASSUME NEW c \in Calls, ReturnMetrics(c) PROVE Invariant' BY <1>7, ReturnMetricsKeeps
<1>8. CASE Dispatch BY <1>8, DispatchKeeps
<1>9. CASE Lost BY <1>9, LostKeeps
<1>10. CASE CloseBegins \/ CloseConnection \/ PumpWoken BY <1>10, StopKeeps
<1>11. CASE JoinProcess \/ BootFails \/ Crash \/ CloseAbruptly \/ EndServer
  BY <1>11, GoneKeeps
<1>12. CASE Boot BY <1>12, BootKeeps
<1>13. CASE Pump BY <1>13, PumpKeeps
<1>14. ASSUME NEW r \in Streams, Forward(r) PROVE Invariant' BY <1>14, ForwardKeeps
<1>15. ASSUME NEW r \in Streams, ForwardCancelled(r) PROVE Invariant'
  BY <1>15, ForwardCancelledKeeps
<1>16. CASE Write BY <1>16, WriteKeeps
<1>17. CASE CloseRuntime BY <1>17, CloseRuntimeKeeps
<1>18. CASE Client
  BY <1>18, <1>2, <1>3, <1>4, <1>5, <1>5a, <1>6, <1>7, <1>8, <1>9, <1>10, <1>11,
    Zenon DEF Client
<1>19. CASE Server
  BY <1>19, <1>10, <1>11, <1>12, <1>13, <1>14, <1>15, <1>16, <1>17, Zenon DEF Server
<1> QED BY <1>1, <1>18, <1>19 DEF Next

(* In every reachable state the traces of a stream are those of one that   *)
(* was opened, the failure of the process comes by itself, what was said   *)
(* on a stream is what was read, what is on its way and what the writer    *)
(* has, and a result is no older than its call (process.py _dispatch,      *)
(* _forward_stream, _write_responses).                                     *)
THEOREM ProcessInvariant == Spec => []Invariant
<1>1. Init => Invariant BY InitInvariant
<1>2. Invariant /\ [Next]_vars => Invariant' BY NextInvariant
<1> QED BY <1>1, <1>2, PTL DEF Spec

(* What is read of a stream, and what is still to be read, is what was     *)
(* said on it, as far as it has come.                                      *)
LEMMA InvariantDelivered == Invariant => Delivered
<1> SUFFICES ASSUME Invariant, NEW r \in Streams
             PROVE  /\ IsPrefix(Seen(r), Said(r))
                    /\ consumer[r] = "open" /\ writer = "running" =>
                         Seen(r) \o InFlight(r) = Said(r)
  BY DEF Delivered
<1>0. Types /\ Entered /\ Flow BY DEF Invariant
<1> DEFINE s == Seen(r)
           b == SentFor(r, toClient)
<1>1. s \in Items /\ b \in Items /\ ItemsFor(r, responses) \in Items /\ emitted[r] \in Items
  BY <1>0, SeenType
<1>2. InFlight(r) = Cat(b, ItemsFor(r, responses))
  <2>1. toClient \in Seq(Batch) /\ responses \in Batch BY <1>0 DEF Types
  <2>2. FlattenSeq(toClient) \in Batch BY <2>1, SentType
  <2>3. ItemsFor(r, Cat(FlattenSeq(toClient), responses)) =
          Cat(ItemsFor(r, FlattenSeq(toClient)), ItemsFor(r, responses))
    BY <2>1, <2>2, ForCat
  <2> QED BY <2>3, Zenon DEF InFlight, SentFor, Cat
<1>3. CASE r \in registered
  <2>1. PICK rest \in Items :
          /\ Said(r) = Cat(Cat(s, b), rest)
          /\ writer = "running" => rest = ItemsFor(r, responses)
    BY <1>0, <1>3 DEF Flow
  <2> HIDE DEF s, b
  <2>2. Said(r) = Cat(s, Cat(b, rest)) /\ Cat(b, rest) \in Items
    BY <1>1, <2>1, CatItems
  <2>3. IsPrefix(s, Said(r)) BY <1>1, <2>2, PrefixOfCat DEF Items
  <2>4. writer = "running" => Cat(s, InFlight(r)) = Said(r) BY <1>2, <2>1, <2>2
  <2> QED BY <2>3, <2>4, Zenon DEF Cat, s
<1>4. CASE r \notin registered
  <2>1. consumer[r] # "open" /\ got[r] = << >> /\ queue[r] = << >> BY <1>0, <1>4 DEF Entered
  <2>2. s = << >>
    <3>1. s = Known(Cat(<< >>, << >>)) BY <2>1 DEF Seen, Cat
    <3>2. LostError \in Item /\ << >> \in Items BY DEF Item, LostError, Raised, Items
    <3>3. Cat(<< >>, << >>) = << >> BY <3>2, CatItems
    <3> QED BY <3>1, <3>2, <3>3, KnownOne
  <2>3. Said(r) \in Items BY <1>1, SaidIs, SeenAsType
  <2>4. << >> \in Seq(Item) /\ Said(r) \in Seq(Item) BY <2>3 DEF Items
  <2>5. IsPrefix(<< >>, Cat(<< >>, Said(r))) BY <2>4, PrefixOfCat
  <2>6. Cat(<< >>, Said(r)) = Said(r) BY <2>4, CatEmpty
  <2> HIDE DEF s
  <2>7. IsPrefix(s, Said(r)) BY <2>2, <2>5, <2>6, Zenon
  <2> QED BY <2>1, <2>7 DEF s
<1> QED BY <1>3, <1>4

(* A stream is delivered in order and without loss, whatever the other     *)
(* streams, the cancellations, the failures and the end of the process do  *)
(* (process.py _forward_stream, _write_responses, _dispatch).              *)
THEOREM DeliveredInOrder == Spec => []Delivered
<1>1. Invariant => Delivered BY InvariantDelivered
<1> QED BY <1>1, ProcessInvariant, PTL

(* A snapshot that returns is not older than the call that asked for it,   *)
(* also when calls time out and their answers come late (process.py        *)
(* snapshot, _dispatch).                                                   *)
THEOREM SnapshotsAreFresh == Spec => []MetricsFresh
<1>1. Invariant => MetricsFresh BY DEF Invariant
<1> QED BY <1>1, ProcessInvariant, PTL

=============================================================================
