----------------------------- MODULE LinkedList -----------------------------
(***************************************************************************)
(* src/linkedlist.h as pointers: lists that share their entries, each      *)
(* entry with the one intrusive link next.  An operation is one action,    *)
(* but the two that scan a list take one step per turn of their loop.      *)
(*                                                                         *)
(* content is an auxiliary variable: the sequence of entries that each     *)
(* list stands for, changed by the operators of ListOps.                   *)
(*                                                                         *)
(* A definition NAME_but_... is no part of the model: it is NAME with a    *)
(* plausible mistake, which one of the properties has to notice.           *)
(***************************************************************************)
EXTENDS ListOps

CONSTANTS
  Entry,
  List,
  Key,        \* what ll_sorted_insert compares
  NULL,
  Deadbeef,   \* the link of an entry that was taken off its list
  Builds      \* subset of {"debug", "release"}: Deadbeef is for "debug" only

ASSUME LinkedListAssumption ==
  /\ NULL \notin Entry /\ Deadbeef \notin Entry \cup {NULL}
  /\ Key \subseteq Int
  /\ Builds \subseteq {"debug", "release"}

VARIABLES
  head, tail,   \* by list
  next, key,    \* by entry
  scan,         \* the scan in progress: [op, list, value, i, p], or NULL
  build,
  content       \* auxiliary

vars == <<head, tail, next, key, scan, build, content>>

Scan == [op : {"ll_remove", "ll_sorted_insert"}, list : List, value : Entry,
         i : Entry \cup {NULL}, p : Entry \cup {NULL}]

\* "a value can only be in one list at a time"
Unlinked(v) == \A l \in List : v \notin ToSet(content[l])

ll_init_list ==
  /\ head = [l \in List |-> NULL]
  /\ tail = [l \in List |-> NULL]

Init ==
  /\ ll_init_list
  /\ next \in [Entry -> {NULL}] /\ key \in [Entry -> Key]
  /\ scan = NULL /\ build \in Builds
  /\ content = [l \in List |-> <<>>]
-----------------------------------------------------------------------------
push_back_but_link_kept(l, v) ==
  /\ scan = NULL /\ Unlinked(v)
  /\ head' = IF head[l] = NULL THEN [head EXCEPT ![l] = v] ELSE head
  /\ tail' = [tail EXCEPT ![l] = v]
  /\ next' = IF head[l] = NULL THEN next ELSE [next EXCEPT ![tail[l]] = v]
  /\ content' = [content EXCEPT ![l] = ll_push_back(@, v)]
  /\ UNCHANGED <<key, scan, build>>

push_back(l, v) ==
  /\ scan = NULL /\ Unlinked(v)
  /\ head' = IF head[l] = NULL THEN [head EXCEPT ![l] = v] ELSE head
  /\ tail' = [tail EXCEPT ![l] = v]
  /\ next' = IF head[l] = NULL
             THEN [next EXCEPT ![v] = NULL]
             ELSE [next EXCEPT ![tail[l]] = v, ![v] = NULL]
  /\ content' = [content EXCEPT ![l] = ll_push_back(@, v)]
  /\ UNCHANGED <<key, scan, build>>

push_front(l, v) ==
  /\ scan = NULL /\ Unlinked(v)
  /\ head' = [head EXCEPT ![l] = v]
  /\ tail' = IF head[l] = NULL THEN [tail EXCEPT ![l] = v] ELSE tail
  /\ next' = [next EXCEPT ![v] = head[l]]
  /\ content' = [content EXCEPT ![l] = ll_push_front(@, v)]
  /\ UNCHANGED <<key, scan, build>>

\* What taking v off its list leaves in its link.
Poisoned(links, v) == IF build = "debug" THEN [links EXCEPT ![v] = Deadbeef]
                                         ELSE links

\* Nothing happens to an empty list.
pop_front(l) ==
  /\ scan = NULL /\ head[l] # NULL
  /\ head' = [head EXCEPT ![l] = next[head[l]]]
  /\ tail' = IF next[head[l]] = NULL THEN [tail EXCEPT ![l] = NULL] ELSE tail
  /\ next' = Poisoned(next, head[l])
  /\ content' = [content EXCEPT ![l] = ll_pop_front(@)]
  /\ UNCHANGED <<key, scan, build>>

\* The owner of an entry gives it another key, as wakeup_locked() does even to
\* an entry that waits in a list.
set_key(v, k) ==
  /\ scan = NULL
  /\ key' = [key EXCEPT ![v] = k]
  /\ UNCHANGED <<head, tail, next, scan, build, content>>
-----------------------------------------------------------------------------
(* The scans: for (i = list->head, p = NULL; i != NULL; p = i, i = i->next) *)

remove(l, v) ==
  /\ scan = NULL
  /\ scan' = [op |-> "ll_remove", list |-> l, value |-> v,
              i |-> head[l], p |-> NULL]
  /\ UNCHANGED <<head, tail, next, key, build, content>>

\* ll_sorted_insert() into an empty list takes a shortcut.
sorted_insert_empty(l, v) ==
  /\ scan = NULL /\ Unlinked(v)
  /\ head[l] = NULL
  /\ head' = [head EXCEPT ![l] = v] /\ tail' = [tail EXCEPT ![l] = v]
  /\ next' = [next EXCEPT ![v] = NULL]
  /\ content' = [content EXCEPT ![l] = ll_sorted_insert(@, v, key)]
  /\ UNCHANGED <<key, scan, build>>

sorted_insert(l, v) ==
  /\ scan = NULL /\ Unlinked(v)
  /\ head[l] # NULL
  /\ scan' = [op |-> "ll_sorted_insert", list |-> l, value |-> v,
              i |-> head[l], p |-> NULL]
  /\ UNCHANGED <<head, tail, next, key, build, content>>

\* The entry the scan is at is the one it looks for.
Hit ==
  /\ scan.i # NULL
  /\ IF scan.op = "ll_remove" THEN scan.i = scan.value
                              ELSE key[scan.value] <= key[scan.i]

scan_on_but_p_kept ==
  /\ scan # NULL /\ scan.i # NULL /\ ~Hit
  /\ scan' = [scan EXCEPT !.i = next[scan.i]]
  /\ UNCHANGED <<head, tail, next, key, build, content>>

scan_on_but_i_kept ==
  /\ scan # NULL /\ scan.i # NULL /\ ~Hit
  /\ scan' = [scan EXCEPT !.p = scan.i]
  /\ UNCHANGED <<head, tail, next, key, build, content>>

scan_on ==
  /\ scan # NULL /\ scan.i # NULL /\ ~Hit
  /\ scan' = [scan EXCEPT !.p = scan.i, !.i = next[scan.i]]
  /\ UNCHANGED <<head, tail, next, key, build, content>>

remove_found_but_tail_kept ==
  LET l == scan.list   i == scan.i   p == scan.p IN
  /\ scan # NULL /\ scan.op = "ll_remove" /\ Hit
  /\ head' = IF i = head[l] THEN [head EXCEPT ![l] = next[i]] ELSE head
  /\ next' = Poisoned(IF p # NULL THEN [next EXCEPT ![p] = next[i]] ELSE next, i)
  /\ content' = [content EXCEPT ![l] = ll_remove(@, i)]
  /\ scan' = NULL
  /\ UNCHANGED <<tail, key, build>>

remove_found ==
  LET l == scan.list   i == scan.i   p == scan.p IN
  /\ scan # NULL /\ scan.op = "ll_remove" /\ Hit
  /\ head' = IF i = head[l] THEN [head EXCEPT ![l] = next[i]] ELSE head
  /\ tail' = IF i = tail[l] THEN [tail EXCEPT ![l] = p] ELSE tail
  /\ next' = Poisoned(IF p # NULL THEN [next EXCEPT ![p] = next[i]] ELSE next, i)
  /\ content' = [content EXCEPT ![l] = ll_remove(@, i)]
  /\ scan' = NULL
  /\ UNCHANGED <<key, build>>

\* A value that is not contained in the list, perhaps in another one.
remove_end ==
  /\ scan # NULL /\ scan.op = "ll_remove" /\ scan.i = NULL
  /\ scan' = NULL
  /\ content' = [content EXCEPT ![scan.list] = ll_remove(@, scan.value)]
  /\ UNCHANGED <<head, tail, next, key, build>>

insert_found ==
  LET l == scan.list   i == scan.i   p == scan.p   v == scan.value IN
  /\ scan # NULL /\ scan.op = "ll_sorted_insert" /\ Hit
  /\ head' = IF p = NULL THEN [head EXCEPT ![l] = v] ELSE head
  /\ next' = IF p = NULL THEN [next EXCEPT ![v] = i]
                         ELSE [next EXCEPT ![p] = v, ![v] = i]
  /\ content' = [content EXCEPT ![l] = ll_sorted_insert(@, v, key)]
  /\ scan' = NULL
  /\ UNCHANGED <<tail, key, build>>

insert_end ==
  LET l == scan.list   v == scan.value IN
  /\ scan # NULL /\ scan.op = "ll_sorted_insert" /\ scan.i = NULL
  /\ next' = [next EXCEPT ![tail[l]] = v, ![v] = NULL]
  /\ tail' = [tail EXCEPT ![l] = v]
  /\ content' = [content EXCEPT ![l] = ll_sorted_insert(@, v, key)]
  /\ scan' = NULL
  /\ UNCHANGED <<head, key, build>>

ScanStep ==
  \/ scan_on
  \/ remove_found
  \/ remove_end
  \/ insert_found
  \/ insert_end

Next ==
  \/ \E l \in List, v \in Entry :
       \/ push_back(l, v)
       \/ push_front(l, v)
       \/ remove(l, v)
       \/ sorted_insert_empty(l, v)
       \/ sorted_insert(l, v)
  \/ \E l \in List : pop_front(l)
  \/ \E v \in Entry, k \in Key : set_key(v, k)
  \/ ScanStep

\* An operation that was called runs on.
Spec == Init /\ [][Next]_vars /\ WF_vars(ScanStep)
-----------------------------------------------------------------------------
TypeOK ==
  /\ head \in [List -> Entry \cup {NULL}] /\ tail \in [List -> Entry \cup {NULL}]
  /\ next \in [Entry -> Entry \cup {NULL, Deadbeef}] /\ key \in [Entry -> Key]
  /\ scan \in Scan \cup {NULL} /\ build \in Builds
  /\ content \in [List -> Seq(Entry)]

\* The pointers of each list stand for its content, although all lists share
\* one link per entry: from head through next to tail, whose link is NULL.
\* This is what the assertions on head and tail check in part.
Represents ==
  \A l \in List :
    LET c == content[l] IN
    /\ IF c = <<>> THEN head[l] = NULL /\ tail[l] = NULL
       ELSE head[l] = c[1] /\ tail[l] = c[Len(c)] /\ next[c[Len(c)]] = NULL
    /\ \A n \in 1..Len(c) - 1 : next[c[n]] = c[n + 1]

\* An entry is in one list at most, once.
OneList ==
  /\ \A l \in List : IsInjective(content[l])
  /\ \A l, m \in List : l # m => ToSet(content[l]) \cap ToSet(content[m]) = {}

\* A scan is at an entry of its own list, with p just before i, as ll_remove()
\* asserts, and has passed no entry that it looks for.
Passed(c, n) ==
  /\ scan.i = IF n = Len(c) THEN NULL ELSE c[n + 1]
  /\ scan.p = IF n = 0 THEN NULL ELSE c[n]
  /\ \A m \in 1..n : IF scan.op = "ll_remove" THEN c[m] # scan.value
                     ELSE key[c[m]] < key[scan.value]

ScanInOrder ==
  scan # NULL => \E n \in 0..Len(content[scan.list]) : Passed(content[scan.list], n)

\* ll_remove() and ll_sorted_insert() return: their loops meet no cycle.
ScansEnd == scan # NULL ~> scan = NULL
=============================================================================
