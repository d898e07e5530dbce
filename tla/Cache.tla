------------------------------- MODULE Cache -------------------------------
(***************************************************************************)
(* The cache of Memoria (cache.c): a list of entries, each for one page of *)
(* one program.  The list is meant to be in order of use, the entry used   *)
(* longest ago first.  Memoria creates, flushes and destroys the cache but *)
(* does not call cache_write and cache_read yet; their calls here are the  *)
(* ones operations.h announces: any page, in any order.                    *)
(***************************************************************************)
EXTENDS Integers, Sequences, FiniteSets

CONSTANTS NEntries,   \* ENTRADAS_CACHE
          Mepp,       \* CACHE_X_PROC: entries a program may have
          Programs, PageNumbers,
          Contents    \* bound: contents of a page

ASSUME SizesAssumption == NEntries \in Nat \ {0} /\ Mepp \in Nat
ASSUME KeysAssumption == Programs \subseteq Nat \ {0} /\ PageNumbers \subseteq Nat

VARIABLES entries,   \* cache.entries
          escrito    \* history: the last contents each page was written with

vars == <<entries, escrito>>

Keys  == Programs \X PageNumbers
Slots == 1..NEntries
Empty == [pid |-> -1, pageno |-> -1, page |-> 0]

Key(entry) == <<entry.pid, entry.pageno>>

Init == /\ entries = [i \in Slots |-> Empty]
        /\ escrito = [k \in Keys |-> 0]

FirstOf(S) == CHOOSE i \in S : \A j \in S : i <= j

SlotsOf(pid) == {i \in Slots : entries[i].pid = pid}

\* The entry of the page, if it has one.
EntryOf(pid, pageno) == {i \in SlotsOf(pid) : entries[i].pageno = pageno}

FreeSlots == SlotsOf(-1)

Cached == {Key(entries[i]) : i \in Slots \ FreeSlots}

\* The slot a page without an entry gets: the first one if none is empty.
NewSlotMutant == 1
NewSlot == IF FreeSlots # {} THEN FirstOf(FreeSlots) ELSE 1

\* May the program have one more entry?
MayHaveMoreMutant(pid) == Cardinality(SlotsOf(pid)) <= Mepp
MayHaveMore(pid) == Cardinality(SlotsOf(pid)) # Mepp

CacheWriteMutant(pid, pageno, page) ==
  /\ EntryOf(pid, pageno) # {} \/ MayHaveMore(pid)
  /\ entries' = IF EntryOf(pid, pageno) # {} THEN entries
                ELSE [entries EXCEPT ![NewSlot] = [pid |-> pid, pageno |-> pageno, page |-> page]]
  /\ escrito' = [escrito EXCEPT ![<<pid, pageno>>] = page]

\* cache_write; it returns false, and changes nothing, at the program's limit.
CacheWrite(pid, pageno, page) ==
  /\ EntryOf(pid, pageno) # {} \/ MayHaveMore(pid)
  /\ LET i == IF EntryOf(pid, pageno) # {} THEN FirstOf(EntryOf(pid, pageno)) ELSE NewSlot
     IN  entries' = [entries EXCEPT ![i] = [pid |-> pid, pageno |-> pageno, page |-> page]]
  /\ escrito' = [escrito EXCEPT ![<<pid, pageno>>] = page]

MovedLastMutant(i) == [j \in Slots |-> IF j < i THEN entries[j] ELSE entries[i]]
MovedLastMutantLost(i) == SubSeq(entries, 1, i - 1) \o SubSeq(entries, i + 1, NEntries)
\* list_remove and list_add of entry i.
MovedLast(i) == SubSeq(entries, 1, i - 1) \o SubSeq(entries, i + 1, NEntries) \o <<entries[i]>>

\* cache_read of a page that has an entry.
CacheRead(pid, pageno) ==
  /\ EntryOf(pid, pageno) # {}
  /\ \E i \in EntryOf(pid, pageno) :
       /\ \A j \in EntryOf(pid, pageno) : j <= i
       /\ entries' = MovedLast(i)
  /\ UNCHANGED escrito

\* cache_flush leaves the contents of the entries where they are.
CacheFlush ==
  /\ entries' = [i \in Slots |-> [entries[i] EXCEPT !.pid = -1, !.pageno = -1]]
  /\ UNCHANGED escrito

Next == \/ \E pid \in Programs, pageno \in PageNumbers :
             \/ \E page \in Contents : CacheWrite(pid, pageno, page)
             \/ CacheRead(pid, pageno)
        \/ CacheFlush

Spec == Init /\ [][Next]_vars

----------------------------------------------------------------------------
(* Properties.                                                             *)

\* What each part of the state may hold.
TypeOK ==
  /\ entries \in [Slots -> [pid : Programs, pageno : PageNumbers, page : Contents]
                             \cup [pid : {-1}, pageno : {-1}, page : Contents \cup {0}]]
  /\ escrito \in [Keys -> Contents \cup {0}]

Taken  == Slots \ FreeSlots

\* A hit gives the contents the page was last written with, wherever reads have
\* moved its entry since.
HoldsLastWritten == \A i \in Taken : entries[i].page = escrito[Key(entries[i])]

\* No page has two entries, of which cache_write would update the first and
\* cache_read return the last.
OneEntryPerPage == \A i, j \in Taken : i # j => Key(entries[i]) # Key(entries[j])

\* cache.c:13, mepp is the "Máximo de entradas por programa".
MaxPerProgram == \A pid \in Programs : Cardinality(SlotsOf(pid)) <= Mepp

\* Short of a flush, no page loses its entry while there is an empty one.
KeptWhileRoom == [][Cached \subseteq Cached' \/ Cached' = {} \/ FreeSlots = {}]_vars
=============================================================================
