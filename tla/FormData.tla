------------------------------ MODULE FormData ------------------------------
(***************************************************************************)
(* encodeFormData of the Stripe client (src/integrations/payments/         *)
(* stripe.ts): nested data written as a flat form whose keys are paths.    *)
(* The metadata of a checkout is any JSON object the client of the gateway *)
(* cares to send, so every kind of nesting reaches it.                     *)
(*                                                                         *)
(* A document is the tree of what stands in it: a function from the paths  *)
(* that lead somewhere to what stands there, a leaf, null, a list or an    *)
(* object with the keys of its entries, in order.  A path is the sequence  *)
(* of its keys; brackets and escapes are left out.                         *)
(***************************************************************************)
EXTENDS Naturals, SequencesExt

CONSTANTS
  Documents,  \* the objects to encode
  EntryKeys,  \* the keys of objects, and those of lists
  Digits,     \* the keys of a list, the texts of 0, 1, ...
  MaxDepth,   \* bound: no document is nested deeper
  NoDocument

VARIABLES
  document,
  form        \* what encodeFormData made of it

formVars == <<document, form>>

Leaf(v)      == [kind |-> "leaf", keys |-> << >>, value |-> v]
Null         == [kind |-> "null", keys |-> << >>]
List(n)      == [kind |-> "list", keys |-> SubSeq(Digits, 1, n)]
Object(keys) == [kind |-> "object", keys |-> keys]

\* p leads through keys of what stands above, and every key leads somewhere
IsPlace(d, p) ==
  /\ p \in Seq(EntryKeys) /\ Len(p) <= MaxDepth
  /\ \A n \in 0 .. Len(p) - 1 : /\ SubSeq(p, 1, n) \in DOMAIN d
                                /\ p[n + 1] \in Range(d[SubSeq(p, 1, n)].keys)
  /\ d[p].keys \in Seq(EntryKeys) /\ IsInjective(d[p].keys)
  /\ \A k \in Range(d[p].keys) : Append(p, k) \in DOMAIN d
  /\ CASE d[p].kind \in {"leaf", "null"} -> d[p].keys = << >>
       [] d[p].kind = "list"             -> d[p].keys = SubSeq(Digits, 1, Len(d[p].keys))
       [] OTHER                          -> d[p].kind = "object"

IsDocument(d) ==
  /\ << >> \in DOMAIN d /\ d[<< >>].kind = "object"
  /\ \A p \in DOMAIN d : IsPlace(d, p)

ASSUME FormAssumption ==
  /\ MaxDepth \in Nat /\ Digits \in Seq(EntryKeys) /\ NoDocument \notin Documents
  /\ \A d \in Documents : IsDocument(d)

Throws       == [throws |-> TRUE, params |-> << >>]
Params(s)    == [throws |-> FALSE, params |-> s]
Param(p, v)  == Params(<<[path |-> p, value |-> v]>>)

\* the pieces joined, the empty ones left out
Joined(pieces) ==
  IF \E i \in DOMAIN pieces : pieces[i].throws THEN Throws
  ELSE Params(FlattenSeq([i \in DOMAIN pieces |-> pieces[i].params]))

\* mutated form: every item of a list is written under the list's own key
ItemPathOfList(path, i) == path

ItemPath(path, i) == Append(path, Digits[i])

\* where entry i of what stands at p is, Object.entries of a list as well
Entry(d, p, i) == Append(p, d[p].keys[i])

\* calls[p][prefix] is what encodeFormData makes of what stands at p, under prefix
Item(d, calls, p, path) ==
  IF d[p].kind = "leaf" THEN Param(path, d[p].value) ELSE calls[p][path]

Piece(d, calls, p, path) ==
  CASE d[p].kind = "null"   -> Params(<< >>)
    [] d[p].kind = "object" -> calls[p][path]
    [] d[p].kind = "list"   -> Joined([i \in DOMAIN d[p].keys |->
                                  Item(d, calls, Entry(d, p, i), ItemPath(path, i))])
    [] d[p].kind = "leaf"   -> Param(path, d[p].value)

EncodeFormData(d) ==
  LET calls[p \in DOMAIN d] ==
        [prefix \in Seq(EntryKeys) |->
          IF d[p].kind = "null" THEN Throws   \* typeof null is 'object'; it has no entries
          ELSE Joined([i \in DOMAIN d[p].keys |->
                 Piece(d, calls, Entry(d, p, i), Append(prefix, d[p].keys[i]))])]
  IN calls[<< >>][<< >>]

FormInit == document = NoDocument /\ form = Params(<< >>)

Encode(d) == document' = d /\ form' = EncodeFormData(d)

FormNext == document = NoDocument /\ \E d \in Documents : Encode(d)

FormSpec == FormInit /\ [][FormNext]_formVars

-----------------------------------------------------------------------------
\* how many lists stand directly above a place, one in the other
ListsAbove(d, path) ==
  Cardinality({n \in 0 .. Len(path) - 1 :
    \A m \in n .. Len(path) - 1 : d[SubSeq(path, 1, m)].kind = "list"})

\* The form lists every leaf of the document once, under its own path, and
\* nothing else: nulls and empty lists and objects are left out.  There is no
\* form, and so no request, exactly when a null is an item of a list, unless
\* the list is itself an item of a list (stripe.ts:129-153).
FormListsLeaves ==
  document # NoDocument =>
    LET places == DOMAIN document
        leaves == {p \in places : document[p].kind = "leaf"}
    IN /\ form.throws <=> \E p \in places : document[p].kind = "null"
                            /\ ListsAbove(document, p) % 2 = 1
       /\ ~form.throws =>
            /\ ToSet(form.params) = {[path |-> p, value |-> document[p].value] : p \in leaves}
            /\ Len(form.params) = Cardinality(leaves)
=============================================================================
