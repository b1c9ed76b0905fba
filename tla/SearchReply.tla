---------------------------- MODULE SearchReply -----------------------------
(***************************************************************************)
(* FTSearchResult::from_redis_value (server/core/redis.rs): the loop that  *)
(* turns the reply of FT.SEARCH, a flat list of a count, keys and pairs of *)
(* path and content, into result items.  It keeps no position in the list: *)
(* a pair belongs to the item pushed last.                                 *)
(*                                                                         *)
(* Whether bytes are UTF-8 is all the loop asks of a string, so a string   *)
(* that is not is one value.                                               *)
(***************************************************************************)
EXTENDS Integers, Sequences, SequencesExt

NoValue == ""  \* of a result that has no content yet

CONSTANTS
  Keys, Contents,  \* strings that are UTF-8
  Garbage,         \* bytes that are not
  MaxItems,        \* bound on the items of an arbitrary reply
  MaxHits          \* bound on the documents of a reply of RediSearch

ASSUME SearchReplyAssumption ==
  /\ Garbage \notin Keys \cup Contents /\ NoValue \notin Keys \cup Contents
  /\ MaxItems \in Nat /\ MaxHits \in Nat

VARIABLES
  hits,     \* the documents found, if RediSearch wrote the reply, else <<>>
  reply,    \* the items of the reply
  at,       \* the next item
  results,  \* results_vec
  outcome   \* "loop", "ok" or "error"

vars == <<hits, reply, at, results, outcome>>

-----------------------------------------------------------------------------
(* Replies.                                                                *)

Count     == [is |-> "int"]
Data(s)   == [is |-> "data", text |-> s]
Pair(s)   == [is |-> "pair", content |-> s]  \* Bulk of two strings
NotStrings == [is |-> "others"]              \* Bulk of two other values
Uneven    == [is |-> "uneven"]               \* Bulk of another length
Nil       == [is |-> "nil"]

Items ==
  {Count, NotStrings, Uneven, Nil} \cup {Data(k) : k \in Keys \cup {Garbage}}
    \cup {Pair(c) : c \in Contents \cup {Garbage}}

\* A document found: its key, and its content unless it was deleted between
\* the index's answer and the reading of the document.
Hits == [key : Keys, item :
    {Nil} \cup {Pair(c) : c \in Contents \cup {Garbage}}]

\* What RediSearch replies: the count, then a key and an item for each hit.
Reply(found) ==
  [j \in 1 .. 2 * Len(found) + 1 |->
     IF j = 1 THEN Count
     ELSE IF j % 2 = 0 THEN Data(found[j \div 2].key) ELSE found[j \div 2].item]

UpTo(S, n) == UNION {[1 .. k -> S] : k \in 0 .. n}

Result == [key : Keys, value : Contents \cup {NoValue}]

TypeOK ==
  /\ reply \in Seq(Items)
  /\ at \in 1 .. Len(reply) + 1
  /\ results \in Seq(Result)
  /\ outcome \in {"loop", "ok", "error"}

Init ==
  /\ \/ hits \in UpTo(Hits, MaxHits) /\ reply = Reply(hits)
     \/ hits = <<>> /\ reply \in UpTo(Items, MaxItems)
  /\ at = 1 /\ results = <<>> /\ outcome = "loop"

-----------------------------------------------------------------------------
(* The loop.                                                               *)

\* A reply of one item, or of none, has no results.
Short ==
  /\ outcome = "loop" /\ at = 1 /\ ~(Len(reply) > 1)
  /\ outcome' = "ok"
  /\ UNCHANGED <<hits, reply, at, results>>

Item(kinds) ==
  /\ outcome = "loop" /\ Len(reply) > 1 /\ at <= Len(reply)
  /\ reply[at].is \in kinds

Consume(new) ==
  /\ results' = new /\ at' = at + 1
  /\ UNCHANGED <<hits, reply, outcome>>

\* Mutant of Skip: a null removes the last item, like content that is not UTF-8.
SkipRemoves ==
  /\ Item({"int", "nil", "others"})
  /\ Consume(IF reply[at].is = "nil" /\ results # <<>>
              THEN Front(results) ELSE results)

\* Counts, nulls and arrays of anything but two strings are passed over.
Skip == Item({"int", "nil", "others"}) /\ Consume(results)

\* Mutant of Key: a key that is not UTF-8 starts an item with an empty key.
KeyDefaulted ==
  /\ Item({"data"})
  /\ LET text == reply[at].text
         key == IF text = Garbage THEN NoValue ELSE text
     IN  Consume(Append(results, [key |-> key, value |-> NoValue]))

\* A key starts an item, unless it is not UTF-8.
Key ==
  /\ Item({"data"})
  /\ LET key == reply[at].text
     IN  \/ key = Garbage /\ Consume(results)
         \/ /\ key # Garbage
            /\ Consume(Append(results, [key |-> key, value |-> NoValue]))

\* Item i with its content.
Complete(i, content) ==
  [results EXCEPT ![i] = [key |-> results[i].key, value |-> content]]

\* Mutant of Content: the item stays when its content is not UTF-8.
ContentKept ==
  /\ Item({"pair"})
  /\ LET content == reply[at].content
     IN  \/ (results = <<>> \/ content = Garbage) /\ Consume(results)
         \/ /\ results # <<>> /\ content # Garbage
            /\ Consume(Complete(Len(results), content))

\* A pair completes the last item, or removes it if it is not UTF-8.
Content ==
  /\ Item({"pair"})
  /\ LET last == Len(results)
         content == reply[at].content
     IN  \/ last = 0 /\ Consume(results)
         \/ /\ last > 0 /\ content = Garbage
            /\ Consume(SubSeq(results, 1, last - 1))
         \/ /\ last > 0 /\ content # Garbage
            /\ Consume(Complete(last, content))

Refuse ==
  /\ Item({"uneven"})
  /\ outcome' = "error"
  /\ UNCHANGED <<hits, reply, at, results>>

Finish ==
  /\ outcome = "loop" /\ Len(reply) > 1 /\ at > Len(reply)
  /\ outcome' = "ok"
  /\ UNCHANGED <<hits, reply, at, results>>

Next == Short \/ Skip \/ Key \/ Content \/ Refuse \/ Finish

Spec == Init /\ [][Next]_vars

-----------------------------------------------------------------------------
(* Properties.                                                             *)

\* Document i is returned unless its content is not UTF-8, and without content
\* if it has gone.
Readable(i) == hits[i].item # Pair(Garbage)

Shown(i) ==
  [key |-> hits[i].key,
   value |-> IF hits[i].item = Nil THEN NoValue ELSE hits[i].item.content]

\* The first m results are the first n documents that can be read, in order
\* and each once: result k is document pos[k].
Lists(found, m, n) ==
  \E pos \in [1 .. m -> 1 .. n] :
    /\ \A j, k \in 1 .. m : j < k => pos[j] < pos[k]
    /\ {pos[k] : k \in 1 .. m} = {i \in 1 .. n : Readable(i)}
    /\ \A k \in 1 .. m : found[k] = Shown(pos[k])

\* Of a reply of RediSearch whose keys are UTF-8 (this program's are) the loop
\* makes the documents found, in their order, none twice and none with the
\* content of another: create_user counts them, login_user reads the first.
ResultsAreDocuments ==
  hits # <<>> /\ outcome = "ok" => Lists(results, Len(results), Len(hits))

\* The items, of the first n, that a result can stem from: its key, with its
\* content after it if it has one.
Sources(items, n, result) ==
  {j \in 1 .. n :
     /\ items[j] = Data(result.key)
     /\ result.value # NoValue => \E k \in j + 1 .. n :
            items[k] = Pair(result.value)}

\* Each result stems from the items, and from a later one than the result
\* before it.
Founded(items, n, found) ==
  \A i \in 1 .. Len(found) :
    /\ Sources(items, n, found[i]) # {}
    /\ i > 1 => \E j \in Sources(items, n, found[i]),
                   k \in Sources(items, n, found[i - 1]) : k < j

\* Whatever the reply, no result is made up: keys come in the order of the
\* reply's keys, and a result's content comes after its key.  (Not more: the
\* content of a key that is not UTF-8 goes to the item before it.)
NothingInvented == Founded(reply, at - 1, results)
=============================================================================
