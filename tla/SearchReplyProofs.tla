------------------------- MODULE SearchReplyProofs --------------------------
(***************************************************************************)
(* Proofs about SearchReply, for replies of any length: the loop makes     *)
(* nothing up, and of a reply of RediSearch it returns the documents that  *)
(* can be read, one by one.                                                *)
(***************************************************************************)
EXTENDS SearchReply, SequenceTheorems, TLAPS

USE DEF Count, Data, Pair, NotStrings, Uneven, Nil

\* A reply of RediSearch is a list of items: the count, then for each
\* document its key and its item.
LEMMA ReplyType ==
  ASSUME NEW n \in Nat, NEW found \in [1 .. n -> Hits]
  PROVE  /\ Reply(found) \in Seq(Items)
         /\ Len(found) = n
         /\ Len(Reply(found)) = 2 * n + 1
         /\ Reply(found)[1] = Count
         /\ \A i \in 1 .. n : /\ Reply(found)[2 * i] = Data(found[i].key)
                              /\ Reply(found)[2 * i + 1] = found[i].item
<1>1. Len(found) = n
  OBVIOUS
<1>2. Reply(found)[1] = Count
  BY <1>1 DEF Reply
<1>3. ASSUME NEW i \in 1 .. n
      PROVE  /\ Reply(found)[2 * i] = Data(found[i].key)
             /\ Reply(found)[2 * i + 1] = found[i].item
  <2>1. /\ 2 * i \in 1 .. 2 * n + 1 /\ 2 * i + 1 \in 1 .. 2 * n + 1
        /\ 2 * i # 1 /\ (2 * i) % 2 = 0 /\ (2 * i) \div 2 = i
        /\ 2 * i + 1 # 1 /\ (2 * i + 1) % 2 # 0 /\ (2 * i + 1) \div 2 = i
    OBVIOUS
  <2> QED BY <1>1, <2>1 DEF Reply
<1>4. ASSUME NEW j \in 1 .. 2 * n + 1
      PROVE  Reply(found)[j] \in Items
  <2>1. CASE j = 1
    BY <1>2, <2>1 DEF Items
  <2>2. ASSUME NEW i \in 1 .. n, j = 2 * i \/ j = 2 * i + 1
        PROVE  Reply(found)[j] \in Items
    <3>1. found[i] \in Hits
      OBVIOUS
    <3> QED BY <1>3, <2>2, <3>1 DEF Hits, Items
  <2>3. j = 1 \/ \E i \in 1 .. n : j = 2 * i \/ j = 2 * i + 1
    <3>1. j # 1 => j \div 2 \in 1 .. n
      OBVIOUS
    <3>2. j = 2 * (j \div 2) \/ j = 2 * (j \div 2) + 1
      OBVIOUS
    <3> QED BY <3>1, <3>2
  <2> QED BY <2>1, <2>2, <2>3
<1>5. Reply(found) \in [1 .. 2 * n + 1 -> Items]
  BY <1>1, <1>4 DEF Reply
<1>6. Len(Reply(found)) = 2 * n + 1 /\ Reply(found) \in Seq(Items)
  BY <1>5
<1> QED BY <1>1, <1>2, <1>3, <1>6

-----------------------------------------------------------------------------
(* Types.                                                                  *)

LEMMA InitType == Init => TypeOK
<1> SUFFICES ASSUME Init PROVE TypeOK
  OBVIOUS
<1>1. reply \in Seq(Items)
  <2>1. CASE hits \in UpTo(Hits, MaxHits) /\ reply = Reply(hits)
    <3>1. PICK k \in 0 .. MaxHits : hits \in [1 .. k -> Hits]
      BY <2>1 DEF UpTo
    <3>2. k \in Nat
      BY DEF SearchReplyAssumption
    <3> QED BY <2>1, <3>1, <3>2, ReplyType
  <2>2. CASE reply \in UpTo(Items, MaxItems)
    <3>1. PICK k \in 0 .. MaxItems : reply \in [1 .. k -> Items]
      BY <2>2 DEF UpTo
    <3>2. k \in Nat
      BY DEF SearchReplyAssumption
    <3> QED BY <3>1, <3>2
  <2> QED BY <2>1, <2>2 DEF Init
<1>2. 1 \in 1 .. Len(reply) + 1 /\ <<>> \in Seq(Result)
  BY <1>1
<1> QED BY <1>1, <1>2 DEF Init, TypeOK

\* What a step that consumes an item reads.
LEMMA ItemType ==
  ASSUME TypeOK, NEW kinds, Item(kinds)
  PROVE  /\ at \in 1 .. Len(reply) /\ at \in Nat
         /\ reply[at] \in Items /\ reply[at].is \in kinds
         /\ at + 1 \in 1 .. Len(reply) + 1
BY DEF TypeOK, Item

LEMMA KeyType ==
  ASSUME TypeOK, Key
  PROVE  /\ reply[at].is = "data" /\ reply[at] = Data(reply[at].text)
         /\ reply[at].text # Garbage =>
              [key |-> reply[at].text, value |-> NoValue] \in Result
<1>1. Item({"data"})
  BY DEF Key
<1>2. reply[at] \in Items /\ reply[at].is = "data"
  BY <1>1, ItemType
<1> QED BY <1>2 DEF Items, Result

LEMMA ContentType ==
  ASSUME TypeOK, Content
  PROVE  /\ reply[at].is = "pair" /\ reply[at] = Pair(reply[at].content)
         /\ reply[at].content \in Contents \cup {Garbage}
<1>1. reply[at] \in Items /\ reply[at].is = "pair"
  BY ItemType DEF Content
<1> QED BY <1>1 DEF Items

\* A completed item is the last one with its content.
LEMMA Completed ==
  ASSUME TypeOK, Len(results) > 0, NEW content \in Contents
  PROVE  LET last == Len(results)
             new == Complete(last, content)
         IN  /\ new \in Seq(Result) /\ Len(new) = last
             /\ new[last] = [key |-> results[last].key, value |-> content]
             /\ \A i \in 1 .. last : i # last => new[i] = results[i]
<1> DEFINE last == Len(results)
           item == [key |-> results[last].key, value |-> content]
<1>1. results \in Seq(Result) /\ last \in 1 .. Len(results)
  BY DEF TypeOK
<1>2. results[last] \in Result
  BY <1>1, ElementOfSeq
<1>3. item \in Result
  BY <1>2 DEF Result
<1> HIDE DEF item
<1>4. /\ [results EXCEPT ![last] = item] \in Seq(Result)
      /\ Len([results EXCEPT ![last] = item]) = Len(results)
      /\ \A j \in 1 .. Len(results) :
           [results EXCEPT ![last] = item][j] = IF j = last THEN
               item ELSE results[j]
  BY <1>1, <1>3, ExceptSeq
<1> QED BY <1>1, <1>4 DEF Complete, item

\* What is left when the last item is removed.
LEMMA Removed ==
  ASSUME TypeOK, Len(results) > 0
  PROVE  LET last == Len(results)
             new == SubSeq(results, 1, last - 1)
         IN  /\ new \in Seq(Result) /\ Len(new) = last - 1
             /\ \A i \in 1 .. last - 1 : new[i] = results[i]
<1>1. results \in Seq(Result) /\ Len(results) \in Nat
  BY DEF TypeOK
<1> DEFINE m == Len(results) - 1
<1>2. m \in Int /\ m \in Nat /\ Len(results) = m + 1
  BY <1>1
<1> HIDE DEF m
<1>3. \A i \in 1 .. m : results[i] \in Result
  BY <1>1, <1>2, ElementOfSeq
<1>4. /\ SubSeq(results, 1, m) \in Seq(Result)
      /\ Len(SubSeq(results, 1, m)) = IF 1 <= m THEN m - 1 + 1 ELSE 0
      /\ \A i \in 1 .. m - 1 + 1 : SubSeq(results, 1, m)[i] = results[1 + i - 1]
  BY <1>2, <1>3, SubSeqProperties
<1>5. /\ Len(SubSeq(results, 1, m)) = m
      /\ \A i \in 1 .. m : SubSeq(results, 1, m)[i] = results[i]
  BY <1>2, <1>4
<1> QED BY <1>4, <1>5 DEF m

LEMMA NextType == TypeOK /\ [Next]_vars => TypeOK'
<1> SUFFICES ASSUME TypeOK, [Next]_vars PROVE TypeOK'
  OBVIOUS
<1>1. CASE UNCHANGED vars
  BY <1>1 DEF vars, TypeOK
<1>2. CASE Short \/ Refuse \/ Finish
  BY <1>2 DEF Short, Refuse, Finish, TypeOK
<1>3. CASE Skip
  BY <1>3, ItemType DEF Skip, Consume, TypeOK
<1>4. CASE Key
  <2>1. at + 1 \in 1 .. Len(reply) + 1
    BY <1>4, ItemType DEF Key
  <2>2. results' \in Seq(Result)
    BY <1>4, KeyType, AppendProperties DEF Key, Consume, TypeOK
  <2> QED BY <1>4, <2>1, <2>2 DEF Key, Consume, TypeOK
<1>5. CASE Content
  <2>1. at + 1 \in 1 .. Len(reply) + 1
    BY <1>5, ItemType DEF Content
  <2>2. results' \in Seq(Result)
    BY <1>5, ContentType, Completed, Removed DEF Content, Consume, TypeOK
  <2> QED BY <1>5, <2>1, <2>2 DEF Content, Consume, TypeOK
<1> QED BY <1>1, <1>2, <1>3, <1>4, <1>5 DEF Next

\* The loop stays inside the reply and keeps strings that are UTF-8 only.
THEOREM TypeCorrect == Spec => []TypeOK
BY InitType, NextType, PTL DEF Spec

-----------------------------------------------------------------------------
(* Nothing is made up.                                                     *)

\* Reading on takes no source away.
LEMMA SourcesRemain ==
  ASSUME NEW items, NEW n \in Nat, NEW result
  PROVE  Sources(items, n, result) \subseteq Sources(items, n + 1, result)
<1> SUFFICES ASSUME NEW j \in Sources(items, n, result)
             PROVE  j \in Sources(items, n + 1, result)
  OBVIOUS
<1>1. j \in 1 .. n /\ items[j] = Data(result.key)
  BY DEF Sources
<1>2. result.value # NoValue => \E k \in j + 1 .. n :
          items[k] = Pair(result.value)
  BY DEF Sources
<1>3. j \in 1 .. n + 1 /\ \A k \in j + 1 .. n : k \in j + 1 .. n + 1
  BY <1>1
<1> HIDE DEF Data, Pair
<1> QED BY <1>1, <1>2, <1>3 DEF Sources

\* Nor does it unfound results.
LEMMA FoundedRemains ==
  ASSUME NEW items, NEW n \in Nat, NEW found \in Seq(Result),
         Founded(items, n, found)
  PROVE  Founded(items, n + 1, found)
BY SourcesRemain DEF Founded

\* Results without the last one are founded as they were.
LEMMA FoundedButLast ==
  ASSUME NEW items, NEW n \in Nat, NEW found \in Seq(Result),
         Founded(items, n, found), NEW left \in Seq(Result),
         Len(left) = Len(found) - 1,
         \A i \in 1 .. Len(left) : left[i] = found[i]
  PROVE  Founded(items, n, left)
<1>1. Len(found) \in Nat /\ Len(left) \in Nat
  OBVIOUS
<1> SUFFICES ASSUME NEW i \in 1 .. Len(left)
             PROVE  /\ Sources(items, n, left[i]) # {}
                    /\ i > 1 => \E j \in Sources(items, n, left[i]),
                                   k \in Sources(items, n, left[i - 1]) : k < j
  BY DEF Founded
<1>2. /\ i \in 1 .. Len(found) /\ left[i] = found[i]
      /\ i > 1 => left[i - 1] = found[i - 1]
  BY <1>1
<1> QED BY <1>2 DEF Founded

\* The key just read is a source of the item made of it.
LEMMA KeyIsSource ==
  ASSUME NEW items, NEW n \in Nat, NEW item, n + 1 \in 1 .. n + 1,
         item.value = NoValue, items[n + 1] = Data(item.key)
  PROVE  n + 1 \in Sources(items, n + 1, item)
<1> HIDE DEF Data, Pair
<1> QED BY ZenonT(30) DEF Sources

\* A source that has just been read founds the item appended for it.
LEMMA FoundedByKey ==
  ASSUME NEW items, NEW n \in Nat, NEW found \in Seq(Result),
         Founded(items, n, found), NEW item \in Result,
         n + 1 \in Sources(items, n + 1, item)
  PROVE  Founded(items, n + 1, Append(found, item))
<1> DEFINE new == Append(found, item)
           last == Len(found) + 1
<1>3. /\ Len(new) = last /\ new[last] = item /\ last \in Nat
      /\ \A i \in 1 .. Len(found) : new[i] = found[i]
  BY AppendProperties
<1> HIDE DEF new
<1>4. Founded(items, n + 1, found)
  BY FoundedRemains
<1>5. \A i \in 1 .. Len(found) : \E k \in Sources(items, n + 1, found[i]) :
          k < n + 1
  <2> SUFFICES ASSUME NEW i \in 1 .. Len(found)
               PROVE  \E k \in Sources(items, n + 1, found[i]) : k < n + 1
    OBVIOUS
  <2>1. PICK k \in Sources(items, n, found[i]) : TRUE
    BY DEF Founded
  <2>2. k \in 1 .. n
    BY DEF Sources
  <2> QED BY <2>1, <2>2, SourcesRemain
<1> SUFFICES ASSUME NEW i \in 1 .. last
             PROVE  /\ Sources(items, n + 1, new[i]) # {}
                    /\ i > 1 => \E j \in Sources(items, n + 1, new[i]),
                                   k \in Sources(items, n + 1, new[i - 1]) :
                                       k < j
  <2>1. Founded(items, n + 1, new)
    BY <1>3 DEF Founded
  <2> QED BY <2>1 DEF new
<1>6. CASE i = last
  <2>1. i > 1 => i - 1 \in 1 .. Len(found) /\ new[i - 1] = found[i - 1]
    BY <1>3, <1>6
  <2>2. i > 1 => \E k \in Sources(items, n + 1, new[i - 1]) : k < n + 1
    BY <1>5, <2>1
  <2>3. n + 1 \in Sources(items, n + 1, new[i])
    BY <1>3, <1>6
  <2> QED BY <2>2, <2>3
<1>7. CASE i # last
  <2>1. /\ i \in 1 .. Len(found) /\ new[i] = found[i]
        /\ i > 1 => new[i - 1] = found[i - 1]
    BY <1>3, <1>7
  <2> QED BY <1>4, <2>1 DEF Founded
<1> QED BY <1>6, <1>7

\* The content just read founds the last item with that content.
LEMMA FoundedByContent ==
  ASSUME NEW items, NEW n \in Nat, NEW found \in Seq(Result), Len(found) > 0,
         Founded(items, n, found), NEW content, items[n + 1] = Pair(content),
         NEW new \in Seq(Result), Len(new) = Len(found),
         new[Len(found)] = [key |-> found[Len(found)].key, value |-> content],
         \A i \in 1 .. Len(found) : i # Len(found) => new[i] = found[i]
  PROVE  Founded(items, n + 1, new)
<1> DEFINE last == Len(found)
<1>1. Founded(items, n + 1, found) /\ last \in Nat
  BY FoundedRemains
<1>2. Sources(items, n, found[last]) \subseteq Sources(items, n + 1, new[last])
  <2> SUFFICES ASSUME NEW j \in Sources(items, n, found[last])
               PROVE  j \in Sources(items, n + 1, new[last])
    OBVIOUS
  <2>1. j \in 1 .. n /\ items[j] = Data(found[last].key)
    BY DEF Sources
  <2>2. new[last].key = found[last].key /\ new[last].value = content
    OBVIOUS
  <2>3. n + 1 \in j + 1 .. n + 1 /\ j \in 1 .. n + 1
    BY <2>1
  <2> QED BY <2>1, <2>2, <2>3 DEF Sources
<1> SUFFICES ASSUME NEW i \in 1 .. last
             PROVE  /\ Sources(items, n + 1, new[i]) # {}
                    /\ i > 1 => \E j \in Sources(items, n + 1, new[i]),
                                   k \in Sources(items, n + 1, new[i - 1]) :
                                       k < j
  BY DEF Founded
<1>3. CASE i = last
  <2>1. i > 1 => i - 1 \in 1 .. last /\ i - 1 # last
    BY <1>1
  <2>2. i > 1 => Sources(items, n, found[i - 1]) \subseteq Sources(items, n + 1,
            new[i - 1])
    BY <2>1, SourcesRemain
  <2>3. /\ Sources(items, n, found[last]) # {}
        /\ i > 1 => \E j \in Sources(items, n, found[last]),
                       k \in Sources(items, n, found[i - 1]) : k < j
    BY <1>1, <1>3 DEF Founded
  <2> QED BY <1>2, <1>3, <2>2, <2>3
<1>4. CASE i # last
  <2>1. new[i] = found[i] /\ (i > 1 => new[i - 1] = found[i - 1])
    BY <1>1, <1>4
  <2> QED BY <1>1, <2>1 DEF Founded
<1> QED BY <1>3, <1>4

LEMMA NextInvented ==
  TypeOK /\ NothingInvented /\ [Next]_vars => NothingInvented'
<1> SUFFICES ASSUME TypeOK, NothingInvented, [Next]_vars PROVE NothingInvented'
  OBVIOUS
<1> DEFINE n == at - 1
<1>1. /\ n \in Nat /\ n + 1 = at /\ results \in Seq(Result)
      /\ results' \in Seq(Result) /\ Founded(reply, n, results)
  BY NextType DEF TypeOK, NothingInvented
<1>2. ASSUME Founded(reply, n + 1, results'), at' = at + 1, reply' = reply
      PROVE  NothingInvented'
  <2>1. at' - 1 = n + 1
    BY <1>1, <1>2
  <2> QED BY <1>2, <2>1 DEF NothingInvented
<1> HIDE DEF n
<1>3. CASE UNCHANGED <<reply, at, results>>
  BY <1>3 DEF NothingInvented
<1>4. CASE Skip
  BY <1>1, <1>2, <1>4, FoundedRemains DEF Skip, Consume
<1>5. CASE Key
  <2>1. at' = at + 1 /\ reply' = reply
    BY <1>5 DEF Key, Consume
  <2>2. CASE results' = results
    BY <1>1, <1>2, <2>1, <2>2, FoundedRemains
  <2>3. CASE results' # results
    <3> DEFINE item == [key |-> reply[at].text, value |-> NoValue]
    <3>1. /\ results' = Append(results, item) /\ item \in Result
          /\ reply[at] = Data(item.key) /\ item.value = NoValue
      BY <1>5, <2>3, KeyType DEF Key, Consume
    <3> HIDE DEF item
    <3>2. n + 1 \in 1 .. n + 1
      BY <1>1
    <3>3. n + 1 \in Sources(reply, n + 1, item)
      BY <1>1, <3>1, <3>2, KeyIsSource
    <3> QED BY <1>1, <1>2, <2>1, <3>1, <3>3, FoundedByKey
  <2> QED BY <2>2, <2>3
<1>6. CASE Content
  <2> DEFINE content == reply[at].content
             last == Len(results)
  <2>1. /\ at' = at + 1 /\ reply' = reply /\ last \in Nat
        /\ reply[at] = Pair(content) /\ content \in Contents \cup {Garbage}
    BY <1>1, <1>6, ContentType DEF Content, Consume
  <2>2. \/ results' = results
        \/ last > 0 /\ results' = SubSeq(results, 1, last - 1)
        \/ last > 0 /\ content # Garbage /\ results' = Complete(last, content)
    BY <1>6 DEF Content, Consume
  <2> HIDE DEF content
  <2>3. CASE results' = results
    BY <1>1, <1>2, <2>1, <2>3, FoundedRemains
  <2>4. CASE last > 0 /\ results' = SubSeq(results, 1, last - 1)
    <3>1. /\ Len(results') = last - 1
          /\ \A i \in 1 .. last - 1 : results'[i] = results[i]
      BY <2>4, Removed
    <3>2. Founded(reply, n + 1, results)
      BY <1>1, FoundedRemains
    <3>3. n + 1 \in Nat
      BY <1>1
    <3>4. Founded(reply, n + 1, results')
      BY <1>1, <3>1, <3>2, <3>3, FoundedButLast
    <3> QED BY <1>2, <2>1, <3>4
  <2>5. CASE last > 0 /\ content # Garbage /\ results' = Complete(last, content)
    <3>1. content \in Contents
      BY <2>1, <2>5
    <3>2. /\ Len(results') = last
          /\ results'[last] = [key |-> results[last].key, value |-> content]
          /\ \A i \in 1 .. last : i # last => results'[i] = results[i]
      BY <2>5, <3>1, Completed
    <3>3. Founded(reply, n + 1, results')
      BY <1>1, <2>1, <2>5, <3>2, FoundedByContent
    <3> QED BY <1>2, <2>1, <3>3
  <2> QED BY <2>2, <2>3, <2>4, <2>5
<1>7. Short \/ Refuse \/ Finish => UNCHANGED <<reply, at, results>>
  BY DEF Short, Refuse, Finish
<1> QED BY <1>3, <1>4, <1>5, <1>6, <1>7 DEF Next, vars

\* Every result's key is a key of the reply, its content comes after it, and
\* results keep the order of their keys, whatever the reply.
THEOREM NothingIsInvented == Spec => []NothingInvented
<1>1. Init => NothingInvented
  BY DEF Init, NothingInvented, Founded
<1> QED BY <1>1, InitType, NextType, NextInvented, PTL DEF Spec

-----------------------------------------------------------------------------
(* The results are the documents.                                          *)

LEMMA ListsNone ==
  ASSUME NEW found
  PROVE  Lists(found, 0, 0)
<1> DEFINE pos == [k \in 1 .. 0 |-> 0]
<1>1. /\ pos \in [1 .. 0 -> 1 .. 0]
      /\ \A j, k \in 1 .. 0 : j < k => pos[j] < pos[k]
      /\ {pos[k] : k \in 1 .. 0} = {i \in 1 .. 0 : Readable(i)}
      /\ \A k \in 1 .. 0 : found[k] = Shown(pos[k])
  OBVIOUS
<1> QED BY <1>1 DEF Lists

\* Lists looks at the results it counts only.
LEMMA ListsSame ==
  ASSUME NEW found, NEW new, NEW m, NEW n, Lists(found, m, n),
         \A k \in 1 .. m : new[k] = found[k]
  PROVE  Lists(new, m, n)
BY DEF Lists

\* A document that can be read is one result more.
LEMMA ListsNext ==
  ASSUME NEW found, NEW m \in Nat, NEW n \in Nat, Lists(found, m, n),
         Readable(n + 1), found[m + 1] = Shown(n + 1)
  PROVE  Lists(found, m + 1, n + 1)
<1>1. PICK pos \in [1 .. m -> 1 .. n] :
        /\ \A j, k \in 1 .. m : j < k => pos[j] < pos[k]
        /\ {pos[k] : k \in 1 .. m} = {i \in 1 .. n : Readable(i)}
        /\ \A k \in 1 .. m : found[k] = Shown(pos[k])
  BY DEF Lists
<1> DEFINE new == [k \in 1 .. m + 1 |-> IF k = m + 1 THEN n + 1 ELSE pos[k]]
<1>2. /\ new \in [1 .. m + 1 -> 1 .. n + 1] /\ new[m + 1] = n + 1
      /\ \A k \in 1 .. m : new[k] = pos[k] /\ new[k] \in 1 .. n
  OBVIOUS
<1> HIDE DEF new
<1>3. \A k \in 1 .. m + 1 : k \in 1 .. m \/ k = m + 1
  OBVIOUS
<1>4. ASSUME NEW j \in 1 .. m + 1, NEW k \in 1 .. m + 1, j < k
      PROVE  new[j] < new[k]
  <2>1. j \in 1 .. m
    BY <1>4
  <2>2. CASE k \in 1 .. m
    BY <1>1, <1>2, <1>4, <2>1, <2>2
  <2>3. CASE k = m + 1
    <3>1. new[j] \in 1 .. n /\ new[k] = n + 1
      BY <1>2, <2>1, <2>3
    <3> QED BY <3>1
  <2> QED BY <1>3, <2>2, <2>3
<1>5. {new[k] : k \in 1 .. m + 1} = {i \in 1 .. n + 1 : Readable(i)}
  <2>1. {new[k] : k \in 1 .. m + 1} = {pos[k] : k \in 1 .. m} \cup {n + 1}
    <3>1. \A k \in 1 .. m : k \in 1 .. m + 1
      OBVIOUS
    <3>2. m + 1 \in 1 .. m + 1
      OBVIOUS
    <3> QED BY <1>2, <1>3, <3>1, <3>2
  <2>2. {i \in 1 .. n + 1 : Readable(i)} =
            {i \in 1 .. n : Readable(i)} \cup {n + 1}
    <3>1. \A i : i \in 1 .. n + 1 <=> i \in 1 .. n \/ i = n + 1
      OBVIOUS
    <3> QED BY <3>1
  <2> QED BY <1>1, <2>1, <2>2
<1>6. \A k \in 1 .. m + 1 : found[k] = Shown(new[k])
  BY <1>1, <1>2, <1>3
<1> QED BY <1>2, <1>4, <1>5, <1>6 DEF Lists

\* A document that cannot be read is none.
LEMMA ListsSkip ==
  ASSUME NEW found, NEW m \in Nat, NEW n \in Nat, Lists(found, m, n),
         ~ Readable(n + 1)
  PROVE  Lists(found, m, n + 1)
<1>1. PICK pos \in [1 .. m -> 1 .. n] :
        /\ \A j, k \in 1 .. m : j < k => pos[j] < pos[k]
        /\ {pos[k] : k \in 1 .. m} = {i \in 1 .. n : Readable(i)}
        /\ \A k \in 1 .. m : found[k] = Shown(pos[k])
  BY DEF Lists
<1>2. \A i : i \in 1 .. n + 1 <=> i \in 1 .. n \/ i = n + 1
  OBVIOUS
<1>3. pos \in [1 .. m -> 1 .. n + 1]
  BY <1>2
<1>4. {i \in 1 .. n + 1 : Readable(i)} = {i \in 1 .. n : Readable(i)}
  BY <1>2
<1> QED BY <1>1, <1>3, <1>4 DEF Lists

\* Where the documents lie in a reply: document i ends at off[i], and only
\* what the loop passes over stands between its key and its item.
Layout(off) ==
  /\ off \in [0 .. Len(hits) -> Nat] /\ off[0] = 1
  /\ Len(reply) = off[Len(hits)] /\ reply[1] = Count
  /\ \A i \in 1 .. Len(hits) :
       /\ off[i - 1] + 2 <= off[i] /\ off[i] <= Len(reply)
       /\ reply[off[i - 1] + 1] = Data(hits[i].key)
       /\ \A j \in off[i - 1] + 2 .. off[i] - 1 : reply[j] \in {Nil, NotStrings}
       /\ reply[off[i]] = hits[i].item

\* How far the loop has come: nowhere, to the end of document n, or into it,
\* and then the last result has its key and nothing more.
Progress(off) ==
  \/ at = 1 /\ results = <<>>
  \/ \E n \in 0 .. Len(hits) :
       at = off[n] + 1 /\ Lists(results, Len(results), n)
  \/ \E n \in 1 .. Len(hits) :
       /\ at \in off[n - 1] + 2 .. off[n]
       /\ Len(results) > 0 /\ Lists(results, Len(results) - 1, n - 1)
       /\ results[Len(results)] = [key |-> hits[n].key, value |-> NoValue]

Documents ==
  /\ ResultsAreDocuments
  /\ hits # <<>> => /\ hits \in Seq(Hits)
                    /\ \E off : Layout(off) /\ Progress(off)

\* What is unprimed in Lists can be primed.
LEMMA ListsPrimed ==
  ASSUME hits' = hits, NEW n, Lists(results', Len(results'), n)
  PROVE  Lists(results, Len(results), n)'
BY DEF Lists, Readable, Shown

LEMMA ListsPrimedButLast ==
  ASSUME hits' = hits, NEW m, m = Len(results') - 1, NEW n,
         Lists(results', m, n)
  PROVE  Lists(results, Len(results) - 1, n)'
<1>1. Lists(results', Len(results') - 1, n)
  OBVIOUS
<1> QED BY <1>1 DEF Lists, Readable, Shown

LEMMA LayoutPrimed ==
  ASSUME hits' = hits, reply' = reply, NEW off, Layout(off)
  PROVE  Layout(off)'
BY DEF Layout

\* Where the position is: the marks grow.
LEMMA Mark ==
  ASSUME hits # <<>>, hits \in Seq(Hits), NEW off, Layout(off),
         NEW n \in 0 .. Len(hits)
  PROVE  /\ off[n] \in Nat \ {0} /\ off[n] <= Len(reply)
         /\ n < Len(hits) =>
                off[n] + 2 <= off[n + 1] /\ n + 1 \in 1 .. Len(hits)
         /\ Len(hits) \in Nat \ {0} /\ Len(reply) \in Nat /\ Len(reply) > 2
<1>1. PICK N \in Nat \ {0} : N = Len(hits)
  OBVIOUS
<1>2. off \in [0 .. N -> Nat]
  BY <1>1 DEF Layout
<1>3. PICK a \in Nat : a = off[n]
  BY <1>1, <1>2
<1>4. PICK all \in Nat : all = Len(reply)
  BY <1>1, <1>2 DEF Layout
<1>5. ASSUME NEW i \in 1 .. N
      PROVE  off[i - 1] + 2 <= off[i] /\ off[i] <= all
  BY <1>1, <1>4 DEF Layout
<1>6. all > 2
  <2>1. PICK b \in Nat : b = off[1]
    BY <1>1, <1>2
  <2>2. off[0] + 2 <= b /\ b <= all /\ off[0] = 1
    <3>1. 1 \in 1 .. N /\ 1 - 1 = 0
      BY <1>1
    <3> QED BY <1>5, <2>1, <3>1 DEF Layout
  <2> QED BY <2>2
<1>7. a <= all /\ a # 0
  <2>1. CASE n = 0
    BY <1>3, <1>6, <2>1 DEF Layout
  <2>2. CASE n # 0
    <3>1. n \in 1 .. N /\ n - 1 \in 0 .. N
      BY <1>1, <2>2
    <3>2. PICK b \in Nat : b = off[n - 1]
      BY <1>2, <3>1
    <3>3. b + 2 <= a /\ a <= all
      BY <1>3, <1>5, <3>1, <3>2
    <3> QED BY <3>3
  <2> QED BY <2>1, <2>2
<1>8. n < N => a + 2 <= off[n + 1] /\ n + 1 \in 1 .. N
  <2> SUFFICES ASSUME n < N PROVE a + 2 <= off[n + 1] /\ n + 1 \in 1 .. N
    OBVIOUS
  <2>1. n + 1 \in 1 .. N /\ (n + 1) - 1 = n
    BY <1>1
  <2> QED BY <1>3, <1>5, <2>1
<1> QED BY <1>1, <1>3, <1>4, <1>6, <1>7, <1>8

\* The item after the count and after a document is the key of the next.
LEMMA KeyNext ==
  ASSUME TypeOK, hits # <<>>, hits \in Seq(Hits), NEW off, Layout(off),
         NEW n \in 0 .. Len(hits), at = off[n] + 1,
             Lists(results, Len(results), n),
         Next
  PROVE  \/ /\ outcome' = "ok" /\ n = Len(hits)
            /\ UNCHANGED <<hits, reply, at, results>>
         \/ /\ n + 1 \in 1 .. Len(hits)
            /\ UNCHANGED <<hits, reply, outcome>> /\ at' = off[n] + 2
            /\ results' =
                   Append(results, [key |-> hits[n + 1].key, value |-> NoValue])
<1>1. /\ off[n] \in Nat \ {0} /\ off[n] <= Len(reply)
      /\ n < Len(hits) => off[n] + 2 <= off[n + 1] /\ n + 1 \in 1 .. Len(hits)
      /\ Len(hits) \in Nat \ {0} /\ Len(reply) \in Nat /\ Len(reply) > 2
  BY Mark
<1>2. PICK a \in Nat \ {0} : a = off[n]
  BY <1>1
<1>3. CASE n = Len(hits)
  <2>1. at = Len(reply) + 1
    BY <1>2, <1>3 DEF Layout
  <2>2. ~ (at <= Len(reply)) /\ at # 1
    BY <1>1, <2>1
  <2>3. Finish
    BY <1>1, <2>2 DEF Next, Short, Skip, Key, Content, Refuse, Item
  <2> QED BY <1>3, <2>3 DEF Finish
<1>4. CASE n # Len(hits)
  <2>1. n + 1 \in 1 .. Len(hits) /\ a + 2 <= off[n + 1] /\
            off[n + 1] <= Len(reply)
    <3>1. n < Len(hits)
      BY <1>1, <1>4
    <3>2. n + 1 \in 1 .. Len(hits)
      BY <1>1, <3>1
    <3> QED BY <1>1, <1>2, <3>1, <3>2 DEF Layout
  <2>2. PICK b \in Nat : b = off[n + 1]
    BY <2>1 DEF Layout
  <2>3. at = a + 1 /\ at # 1 /\ at <= Len(reply)
    BY <1>1, <1>2, <2>1, <2>2
  <2>4. reply[at] = Data(hits[n + 1].key)
    <3>1. (n + 1) - 1 = n
      OBVIOUS
    <3>2. reply[off[(n + 1) - 1] + 1] = Data(hits[n + 1].key)
      BY <2>1 DEF Layout
    <3> QED BY <3>1, <3>2
  <2>5. hits[n + 1] \in Hits
    BY <2>1, ElementOfSeq
  <2>6. hits[n + 1].key # Garbage
    BY <2>5, SearchReplyAssumption DEF Hits
  <2>7. Key
    BY <1>1, <2>3, <2>4 DEF Next, Short, Finish, Skip, Content, Refuse, Item
  <2>8. results' = Append(results, [key |-> hits[n + 1].key, value |-> NoValue])
        /\ at' = at + 1 /\ UNCHANGED <<hits, reply, outcome>>
    BY <2>4, <2>6, <2>7 DEF Key, Consume
  <2>9. at' = off[n] + 2
    BY <1>2, <2>3, <2>8
  <2> QED BY <2>1, <2>8, <2>9
<1> QED BY <1>3, <1>4

\* Nothing happens between a key and its item.
LEMMA Between ==
  ASSUME TypeOK, hits # <<>>, hits \in Seq(Hits), NEW off, Layout(off),
         NEW n \in 1 .. Len(hits), at \in off[n - 1] + 2 .. off[n], at # off[n],
         Next
  PROVE  UNCHANGED <<hits, reply, results, outcome>> /\ at' = at + 1
<1>0. n \in 0 .. Len(hits) /\ n - 1 \in 0 .. Len(hits)
  OBVIOUS
<1>1. PICK a \in Nat : a = off[n - 1]
  BY <1>0, Mark
<1>2. PICK b \in Nat : b = off[n]
  BY <1>0, Mark
<1>3. b <= Len(reply) /\ Len(reply) \in Nat
  BY <1>0, <1>2, Mark
<1>4. at \in a + 2 .. b - 1 /\ at # 1 /\ at <= Len(reply) /\ Len(reply) > 1
  BY <1>1, <1>2, <1>3
<1>5. reply[at] \in {Nil, NotStrings}
  BY <1>1, <1>2, <1>4 DEF Layout
<1>6. Skip
  BY <1>4, <1>5 DEF Next, Short, Finish, Key, Content, Refuse, Item
<1> QED BY <1>6 DEF Skip, Consume

\* An item ends its document.
LEMMA ItemEnds ==
  ASSUME TypeOK, hits # <<>>, hits \in Seq(Hits), NEW off, Layout(off),
         NEW n \in 1 .. Len(hits), at = off[n],
         Len(results) > 0, Lists(results, Len(results) - 1, n - 1),
         results[Len(results)] = [key |-> hits[n].key, value |-> NoValue],
         Next
  PROVE  /\ UNCHANGED <<hits, reply, outcome>> /\ at' = off[n] + 1
         /\ Lists(results', Len(results'), n)
<1>0. n \in 0 .. Len(hits) /\ n - 1 \in 0 .. Len(hits)
  OBVIOUS
<1>1. PICK b \in Nat : b = off[n]
  BY <1>0, Mark
<1>2. b <= Len(reply) /\ Len(reply) \in Nat /\ Len(reply) > 2 /\ b # 1
  <2>1. PICK a \in Nat \ {0} : a = off[n - 1]
    BY <1>0, Mark
  <2>2. a + 2 <= b
    BY <1>1, <2>1 DEF Layout
  <2>3. b <= Len(reply) /\ Len(reply) \in Nat /\ Len(reply) > 2
    BY <1>0, <1>1, Mark
  <2> QED BY <2>2, <2>3
<1>3. reply[at] = hits[n].item
  BY DEF Layout
<1>4. hits[n] \in Hits
  BY ElementOfSeq
<1>5. PICK item : item = hits[n].item
  OBVIOUS
<1>6. item = Nil \/ \E c \in Contents \cup {Garbage} : item = Pair(c)
  BY <1>4, <1>5 DEF Hits
<1>7. PICK m \in Nat : m + 1 = Len(results) /\ Len(results) - 1 = m
  <2>1. Len(results) \in Nat
    BY DEF TypeOK
  <2>2. Len(results) - 1 \in Nat /\ (Len(results) - 1) + 1 = Len(results)
    BY <2>1
  <2> QED BY <2>2
<1>8. PICK l \in Nat : l + 1 = n /\ n - 1 = l
  <2>1. n - 1 \in Nat /\ (n - 1) + 1 = n
    OBVIOUS
  <2> QED BY <2>1
<1>9. Lists(results, m, l) /\
          results[m + 1] = [key |-> hits[n].key, value |-> NoValue]
  BY <1>7, <1>8
<1>10. CASE item = Nil
  <2>1. Skip
    BY <1>1, <1>2, <1>3, <1>5, <1>10 DEF Next, Short, Finish, Key, Content,
       Refuse, Item
  <2>2. UNCHANGED <<hits, reply, outcome, results>> /\ at' = off[n] + 1
    BY <2>1 DEF Skip, Consume
  <2>3. Readable(n)
    BY <1>5, <1>10 DEF Readable
  <2>4. Shown(n) = [key |-> hits[n].key, value |-> NoValue]
    BY <1>5, <1>10 DEF Shown
  <2>5. Lists(results, m + 1, l + 1)
    BY <1>7, <1>8, <1>9, <2>3, <2>4, ListsNext
  <2> QED BY <1>7, <1>8, <2>2, <2>5
<1>11. ASSUME NEW c \in Contents \cup {Garbage}, item = Pair(c)
       PROVE  /\ UNCHANGED <<hits, reply, outcome>> /\ at' = off[n] + 1
              /\ Lists(results', Len(results'), n)
  <2>1. reply[at].is = "pair" /\ reply[at].content = c
    BY <1>3, <1>5, <1>11
  <2>2. Content
    BY <1>1, <1>2, <2>1 DEF Next, Short, Finish, Key, Skip, Refuse, Item
  <2>3. UNCHANGED <<hits, reply, outcome>> /\ at' = off[n] + 1
    BY <2>2 DEF Content, Consume
  <2>4. CASE c = Garbage
    <3>1. results' = SubSeq(results, 1, Len(results) - 1)
      BY <1>7, <2>1, <2>2, <2>4 DEF Content, Consume
    <3>2. Len(results') = m /\ \A i \in 1 .. m : results'[i] = results[i]
      BY <1>7, <3>1, Removed
    <3>3. ~ Readable(l + 1)
      BY <1>5, <1>8, <1>11, <2>4 DEF Readable
    <3>4. Lists(results, m, l + 1)
      BY <1>9, <3>3, ListsSkip
    <3>5. Lists(results', m, l + 1)
      BY <3>2, <3>4, ListsSame
    <3> QED BY <1>8, <2>3, <3>2, <3>5
  <2>5. CASE c # Garbage
    <3>1. c \in Contents
      BY <2>5
    <3>2. results' = Complete(Len(results), c)
      BY <1>7, <2>1, <2>2, <2>5 DEF Content, Consume
    <3>3. /\ Len(results') = m + 1
          /\ results'[m + 1] = [key |-> results[m + 1].key, value |-> c]
          /\ \A i \in 1 .. m + 1 : i # m + 1 => results'[i] = results[i]
      BY <1>7, <3>1, <3>2, Completed
    <3>4. \A i \in 1 .. m : results'[i] = results[i]
      BY <3>3
    <3>5. Lists(results', m, l)
      BY <1>9, <3>4, ListsSame
    <3>6. Readable(l + 1)
      <4>1. Pair(c) # Pair(Garbage)
        BY <2>5
      <4>2. Readable(n)
        BY <1>5, <1>11, <4>1 DEF Readable
      <4> QED BY <1>8, <4>2
    <3>7. Shown(l + 1) = [key |-> hits[n].key, value |-> c]
      <4>1. item # Nil /\ item.content = c
        BY <1>11
      <4>2. Shown(n) = [key |-> hits[n].key, value |-> c]
        BY <1>5, <4>1 DEF Shown
      <4> QED BY <1>8, <4>2
    <3>8. results'[m + 1] = Shown(l + 1)
      BY <1>9, <3>3, <3>7
    <3>9. Lists(results', m + 1, l + 1)
      BY <3>5, <3>6, <3>8, ListsNext
    <3> QED BY <1>8, <2>3, <3>3, <3>9
  <2> QED BY <2>4, <2>5
<1> QED BY <1>6, <1>10, <1>11

LEMMA NextDocuments == TypeOK /\ Documents /\ [Next]_vars => Documents'
<1> SUFFICES ASSUME TypeOK, Documents, [Next]_vars PROVE Documents'
  OBVIOUS
<1>1. CASE UNCHANGED vars
  <2>1. UNCHANGED <<hits, reply, at, results, outcome>>
    BY <1>1 DEF vars
  <2>2. ResultsAreDocuments'
    BY <2>1, ListsPrimed DEF Documents, ResultsAreDocuments
  <2>3. ASSUME NEW off, Layout(off), Progress(off)
        PROVE  Layout(off)' /\ Progress(off)'
    <3>1. Layout(off)'
      BY <2>1, <2>3, LayoutPrimed
    <3>2. \A n : Lists(results, Len(results), n) =>
              Lists(results, Len(results), n)'
      BY <2>1, ListsPrimed
    <3>3. ASSUME NEW n, Lists(results, Len(results) - 1, n)
          PROVE  Lists(results, Len(results) - 1, n)'
      <4>1. PICK m : m = Len(results) - 1
        OBVIOUS
      <4> QED BY <2>1, <3>3, <4>1, ListsPrimedButLast
    <3>4. CASE at = 1 /\ results = <<>>
      <4>1. at' = 1 /\ results' = <<>>
        BY <2>1, <3>4
      <4> QED BY <2>3, <3>1, <4>1 DEF Progress
    <3>5. CASE \E n \in 0 .. Len(hits) :
                 at = off[n] + 1 /\ Lists(results, Len(results), n)
      <4>1. PICK n \in 0 .. Len(hits) :
              at = off[n] + 1 /\ Lists(results, Len(results), n)
        BY <3>5
      <4>2. n \in 0 .. Len(hits') /\ at' = off[n] + 1
        BY <2>1, <4>1
      <4>3. Lists(results, Len(results), n)'
        BY <3>2, <4>1
      <4> QED BY <3>1, <4>2, <4>3 DEF Progress
    <3>6. CASE \E n \in 1 .. Len(hits) :
                 /\ at \in off[n - 1] + 2 .. off[n]
                 /\ Len(results) > 0 /\ Lists(results, Len(results) - 1, n - 1)
                 /\ results[Len(results)] =
                        [key |-> hits[n].key, value |-> NoValue]
      <4>1. PICK n \in 1 .. Len(hits) :
              /\ at \in off[n - 1] + 2 .. off[n]
              /\ Len(results) > 0 /\ Lists(results, Len(results) - 1, n - 1)
              /\ results[Len(results)] =
                     [key |-> hits[n].key, value |-> NoValue]
        BY <3>6
      <4>2. /\ n \in 1 .. Len(hits') /\ at' \in off[n - 1] + 2 .. off[n]
            /\ Len(results') > 0
            /\ results'[Len(results')] =
                   [key |-> hits'[n].key, value |-> NoValue]
        BY <2>1, <4>1
      <4>3. Lists(results, Len(results) - 1, n - 1)'
        BY <3>3, <4>1
      <4> QED BY <3>1, <4>2, <4>3 DEF Progress
    <3> QED BY <2>3, <3>4, <3>5, <3>6 DEF Progress
  <2> QED BY <2>1, <2>2, <2>3 DEF Documents
<1>2. CASE hits = <<>>
  <2>1. hits' = <<>>
    BY <1>2 DEF Next, vars, Short, Skip, Key, Content, Refuse, Finish, Consume
  <2> QED BY <2>1 DEF Documents, ResultsAreDocuments
<1>3. CASE hits # <<>> /\ Next
  <2>1. PICK off : Layout(off) /\ Progress(off)
    BY <1>3 DEF Documents
  <2>2. hits \in Seq(Hits)
    BY <1>3 DEF Documents
  <2>3. ASSUME UNCHANGED <<hits, reply>>, Progress(off)',
               outcome' = "ok" => Lists(results', Len(results'), Len(hits))
        PROVE  Documents'
    <3>1. ResultsAreDocuments'
      BY <2>3, ListsPrimed DEF ResultsAreDocuments
    <3>2. Layout(off)'
      BY <2>1, <2>3, LayoutPrimed
    <3>3. hits' \in Seq(Hits)
      BY <2>2, <2>3
    <3> QED BY <2>3, <3>1, <3>2, <3>3 DEF Documents
  <2>4. CASE outcome # "loop"
    BY <1>3, <2>4 DEF Next, Short, Skip, Key, Content, Refuse, Finish, Item
  <2>5. ASSUME NEW n \in 0 .. Len(hits), hits' = hits, at' = off[n] + 1,
               Lists(results', Len(results'), n)
        PROVE  Progress(off)'
    BY <2>5, ListsPrimed DEF Progress
  <2>6. CASE at = 1 /\ results = <<>>
    <3>1. Len(reply) > 2 /\ Len(reply) \in Nat /\ 0 \in 0 .. Len(hits)
      <4>1. 0 \in 0 .. Len(hits)
        BY <2>2
      <4> QED BY <1>3, <2>1, <2>2, <4>1, Mark
    <3>2. reply[at] = Count
      BY <2>1, <2>6 DEF Layout
    <3>3. Skip
      BY <1>3, <2>6, <3>1, <3>2
         DEF Next, Short, Finish, Key, Content, Refuse, Item, Count
    <3>4. UNCHANGED <<hits, reply, results, outcome>> /\ at' = off[0] + 1
      BY <2>1, <2>6, <3>3 DEF Skip, Consume, Layout
    <3>5. Lists(results', Len(results'), 0)
      <4>1. Len(results') = 0
        BY <2>6, <3>4
      <4> QED BY <4>1, ListsNone
    <3>6. Progress(off)'
      BY <2>5, <3>1, <3>4, <3>5
    <3> QED BY <2>3, <2>4, <3>4, <3>6
  <2>7. ASSUME NEW n \in 0 .. Len(hits), at = off[n] + 1,
               Lists(results, Len(results), n)
        PROVE  Documents'
    <3>1. \/ /\ outcome' = "ok" /\ n = Len(hits)
             /\ UNCHANGED <<hits, reply, at, results>>
          \/ /\ n + 1 \in 1 .. Len(hits)
             /\ UNCHANGED <<hits, reply, outcome>> /\ at' = off[n] + 2
             /\ results' =
                    Append(results,
                        [key |-> hits[n + 1].key, value |-> NoValue])
      BY <1>3, <2>1, <2>2, <2>7, KeyNext
    <3>2. CASE /\ outcome' = "ok" /\ n = Len(hits)
               /\ UNCHANGED <<hits, reply, at, results>>
      <4>1. Lists(results', Len(results'), n) /\ at' = off[n] + 1
        BY <2>7, <3>2
      <4>2. Progress(off)'
        BY <2>5, <3>2, <4>1
      <4> QED BY <2>3, <3>2, <4>1, <4>2
    <3>3. CASE /\ n + 1 \in 1 .. Len(hits)
               /\ UNCHANGED <<hits, reply, outcome>> /\ at' = off[n] + 2
               /\ results' =
                      Append(results,
                          [key |-> hits[n + 1].key, value |-> NoValue])
      <4>1. PICK m \in Nat : m = Len(results)
        BY DEF TypeOK
      <4>2. /\ Len(results') = m + 1
            /\ results'[m + 1] = [key |-> hits[n + 1].key, value |-> NoValue]
            /\ \A i \in 1 .. m : results'[i] = results[i]
        <5>1. PICK item : item = [key |-> hits[n + 1].key, value |-> NoValue]
          OBVIOUS
        <5>2. results \in Seq(Result \cup {item})
          BY SeqMonotonic DEF TypeOK
        <5>3. results' = Append(results, item)
          BY <3>3, <5>1
        <5> QED BY <4>1, <5>1, <5>2, <5>3, AppendProperties
      <4>3. Lists(results', m, n)
        BY <2>7, <4>1, <4>2, ListsSame
      <4>4. (n + 1) - 1 = n /\ (m + 1) - 1 = m
        BY <4>1
      <4>5. Lists(results, Len(results) - 1, (n + 1) - 1)'
        <5>1. m = Len(results') - 1
          BY <4>2, <4>4
        <5>2. Lists(results', m, (n + 1) - 1)
          BY <4>3, <4>4
        <5> QED BY <3>3, <5>1, <5>2, ListsPrimedButLast
      <4>6. at' \in off[n] + 2 .. off[n + 1]
        <5>1. off[n] \in Nat /\ off[n + 1] \in Nat /\ off[n] + 2 <= off[n + 1]
          <6>1. n < Len(hits)
            BY <2>2, <3>3
          <6>2. n + 1 \in 0 .. Len(hits)
            BY <2>2, <3>3
          <6> QED BY <1>3, <2>1, <2>2, <6>1, <6>2, Mark
        <5> QED BY <3>3, <5>1
      <4>7. Progress(off)'
        <5>1. Len(results') > 0
          BY <4>1, <4>2
        <5>2. \E i \in 1 .. Len(hits') :
                /\ at' \in off[i - 1] + 2 .. off[i]
                /\ Len(results') > 0 /\ Lists(results, Len(results) - 1, i - 1)'
                /\ results'[Len(results')] =
                       [key |-> hits'[i].key, value |-> NoValue]
          <6>1. PICK i : i = n + 1
            OBVIOUS
          <6>2. i \in 1 .. Len(hits')
            BY <3>3, <6>1
          <6>3. Lists(results, Len(results) - 1, i - 1)'
            BY <4>5, <6>1
          <6>4. results'[Len(results')] =
                    [key |-> hits'[i].key, value |-> NoValue]
            BY <3>3, <4>2, <6>1
          <6>5. at' \in off[i - 1] + 2 .. off[i]
            BY <4>4, <4>6, <6>1
          <6> QED BY <5>1, <6>2, <6>3, <6>4, <6>5
        <5> QED BY <5>2 DEF Progress
      <4> QED BY <2>3, <2>4, <3>3, <4>7
    <3> QED BY <3>1, <3>2, <3>3
  <2>8. ASSUME NEW n \in 1 .. Len(hits), at \in off[n - 1] + 2 .. off[n],
               Len(results) > 0, Lists(results, Len(results) - 1, n - 1),
               results[Len(results)] = [key |-> hits[n].key, value |-> NoValue]
        PROVE  Documents'
    <3>1. CASE at = off[n]
      <4>1. /\ UNCHANGED <<hits, reply, outcome>> /\ at' = off[n] + 1
            /\ Lists(results', Len(results'), n)
        BY <1>3, <2>1, <2>2, <2>8, <3>1, ItemEnds
      <4>2. n \in 0 .. Len(hits)
        OBVIOUS
      <4>3. Progress(off)'
        BY <2>5, <4>1, <4>2
      <4> QED BY <2>3, <2>4, <4>1, <4>3
    <3>2. CASE at # off[n]
      <4>1. UNCHANGED <<hits, reply, results, outcome>> /\ at' = at + 1
        BY <1>3, <2>1, <2>2, <2>8, <3>2, Between
      <4>2. at' \in off[n - 1] + 2 .. off[n]
        <5>1. off[n] \in Nat /\ off[n - 1] \in Nat
          <6>1. n \in 0 .. Len(hits) /\ n - 1 \in 0 .. Len(hits)
            BY <2>2
          <6> QED BY <1>3, <2>1, <2>2, <6>1, Mark
        <5> QED BY <2>8, <3>2, <4>1, <5>1
      <4>3. Lists(results, Len(results) - 1, n - 1)'
        BY <2>8, <4>1 DEF Lists, Readable, Shown
      <4>4. /\ n \in 1 .. Len(hits') /\ Len(results') > 0
            /\ results'[Len(results')] =
                   [key |-> hits'[n].key, value |-> NoValue]
        BY <2>8, <4>1
      <4>5. Progress(off)'
        BY <4>2, <4>3, <4>4 DEF Progress
      <4> QED BY <2>3, <2>4, <4>1, <4>5
    <3> QED BY <3>1, <3>2
  <2> QED BY <2>1, <2>6, <2>7, <2>8 DEF Progress
<1> QED BY <1>1, <1>2, <1>3

LEMMA InitDocuments == Init => Documents
<1> SUFFICES ASSUME Init PROVE Documents
  OBVIOUS
<1>1. outcome # "ok" /\ at = 1 /\ results = <<>>
  BY DEF Init
<1>2. CASE hits = <<>>
  BY <1>1, <1>2 DEF Documents, ResultsAreDocuments
<1>3. CASE hits # <<>>
  <2>1. hits \in UpTo(Hits, MaxHits) /\ reply = Reply(hits)
    BY <1>3 DEF Init
  <2>2. PICK n \in 0 .. MaxHits : hits \in [1 .. n -> Hits]
    BY <2>1 DEF UpTo
  <2>3. n \in Nat
    BY SearchReplyAssumption
  <2>4. /\ Len(hits) = n /\ Len(reply) = 2 * n + 1 /\ reply[1] = Count
        /\ \A i \in 1 .. n : /\ reply[2 * i] = Data(hits[i].key)
                             /\ reply[2 * i + 1] = hits[i].item
    BY <2>1, <2>2, <2>3, ReplyType
  <2>5. PICK off : off = [i \in 0 .. n |-> 2 * i + 1]
    OBVIOUS
  <2>6. off \in [0 .. n -> Nat] /\ off[0] = 1 /\ off[n] = 2 * n + 1
    BY <2>3, <2>5
  <2>7. ASSUME NEW i \in 1 .. n
        PROVE  /\ off[i - 1] + 2 <= off[i] /\ off[i] <= Len(reply)
               /\ reply[off[i - 1] + 1] = Data(hits[i].key)
               /\ \A j \in off[i - 1] + 2 .. off[i] - 1 :
                      reply[j] \in {Nil, NotStrings}
               /\ reply[off[i]] = hits[i].item
    <3>1. off[i - 1] = 2 * i - 1 /\ off[i] = 2 * i + 1
      BY <2>3, <2>5
    <3>2. off[i - 1] + 1 = 2 * i /\ off[i - 1] + 2 = 2 * i + 1 /\
              2 * i + 1 <= 2 * n + 1
      BY <3>1
    <3>3. \A j \in off[i - 1] + 2 .. off[i] - 1 : FALSE
      BY <3>1
    <3> QED BY <2>4, <3>1, <3>2, <3>3
  <2>8. Layout(off)
    BY <2>4, <2>6, <2>7 DEF Layout
  <2>9. hits \in Seq(Hits)
    BY <2>2, <2>3
  <2> QED BY <1>1, <2>8, <2>9 DEF Documents, ResultsAreDocuments, Progress
<1> QED BY <1>2, <1>3

\* Of a reply of RediSearch, however many documents it has, the loop returns
\* those that can be read, in order, each once and with its own content.
THEOREM DocumentsAreFound == Spec => []ResultsAreDocuments
<1>1. Documents => ResultsAreDocuments
  BY DEF Documents
<1> QED BY <1>1, InitType, NextType, InitDocuments, NextDocuments, PTL DEF Spec
=============================================================================
