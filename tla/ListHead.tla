------------------------------ MODULE ListHead ------------------------------
(***************************************************************************)
(* include/lucix/list.h: circular doubly linked lists.  A family of list   *)
(* nodes is a record L of two functions, next and prev, from nodes to      *)
(* nodes; a list is the ring through its head.  Assignments happen in the  *)
(* order of the C code, which matters when nodes coincide.                 *)
(***************************************************************************)
EXTENDS Integers

(* INIT_LIST_HEAD of every node.                                           *)
InitListHeads(Nodes) == [next |-> [n \in Nodes |-> n], prev |-> [n \in Nodes |-> n]]

ListAddBetween(L, new, prev, next) ==
  [L EXCEPT !.prev[next] = new, !.next[new] = next, !.prev[new] = prev, !.next[prev] = new]

list_add(L, new, head) == ListAddBetween(L, new, head, L.next[head])
list_add_tail(L, new, head) == ListAddBetween(L, new, L.prev[head], head)

(* __list_del: the neighbours of an entry are linked to each other.        *)
ListDel(L, prev, next) == [L EXCEPT !.prev[next] = prev, !.next[prev] = next]

list_del_init(L, entry) ==
  [ListDel(L, L.prev[entry], L.next[entry]) EXCEPT !.next[entry] = entry, !.prev[entry] = entry]

list_empty(L, head) == L.next[head] = head

(* The entries list_for_each visits from a head before it is back at the   *)
(* head, in a family of at most max nodes.                                 *)
Entries(L, head, max) ==
  LET Walk[i \in 0 .. max] == IF i = 0 THEN head ELSE L.next[Walk[i - 1]]
  IN  {Walk[i] : i \in {k \in 1 .. max : \A j \in 1 .. k : Walk[j] # head}}
=============================================================================
