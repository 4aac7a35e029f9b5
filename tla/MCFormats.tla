----------------------------- MODULE MCFormats -----------------------------
(***************************************************************************)
(* Inputs for the small parts of the pool.                                 *)
(*                                                                         *)
(* Trees have up to nine leaves: full, with an odd row low, high and at    *)
(* every level.  Heights lie around every power of two at which bytes or   *)
(* signs change.  A target has three bytes of a base of 4.  Equihash is    *)
(* scaled to bytes of 3 bits, 4 indices of 4 bits, and hashes of 12 bits   *)
(* in 3 digits, so that, as in the code, digits do not end with bytes;     *)
(* hashes have bits just before and behind every digit's and byte's end.   *)
(***************************************************************************)
EXTENDS Formats

Around(n) == {n - 1, n, n + 1}
Heights == (17 .. 40) \cup UNION {Around(2 ^ e) : e \in {7, 8, 15, 16, 19, 23, 24, 28}}
           \cup UNION {Around((283349 * k) \div 16) : k \in 1 .. 47} \cup Around(840000)

Patterns == {{}, {0}, {3}, {4, 9}, {5}, {9}, {11}}
Proofs == {<<0, 1, 2, 3>>, <<0, 2, 1, 3>>, <<0, 1, 3, 2>>, <<1, 0, 2, 3>>, <<0, 3, 1, 2>>,
           <<2, 3, 0, 1>>, <<0, 1, 1, 2>>, <<0, 0, 1, 2>>, <<0, 1, 0, 2>>}
Hashes == [0 .. 3 -> Patterns]

Log == {[login |-> "ann", worker |-> "w", hr |-> 35, at |-> t] : t \in {1, 4, 6, 8}} \cup
       {[login |-> "ann", worker |-> "v", hr |-> 70, at |-> t] : t \in {2, 7, 10}} \cup
       {[login |-> "bob", worker |-> "w", hr |-> 35, at |-> t] : t \in {5, 9}}

BoundedInputs ==
    [kind : {"leaves"}, n : 1 .. 9] \cup [kind : {"height"}, h : Heights] \cup
    [kind : {"txs"}, n : 0 .. 300] \cup
    [kind : {"hash"}, hash : 1 .. 70, target : {0, 1, 2, 5, 20, 30, 60}, diff : 1 .. 8] \cup
    [kind : {"proof"}, hashes : Hashes, indices : Proofs] \cup
    [kind : {"bytes"}, n : {3}, bytes : [1 .. 4 -> 0 .. 7]] \cup
    [kind : {"shares"}, shares : SUBSET Log, then : {6, 8, 10}] \cup
    [kind : {"blocks"}, immature : 0 .. 3, matured : 0 .. 4,
                        windows : {<<1>>, <<2, 4>>, <<1, 3, 6>>}]
=============================================================================
