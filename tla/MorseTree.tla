------------------------------ MODULE MorseTree ------------------------------
(***************************************************************************)
(* The Morse tree of lib/morse_tree.cc, which turns dots and dashes into   *)
(* the characters of a word.  A tree is a record with the node d_current   *)
(* and the characters of d_word_buffer; nodes are numbered like those of a *)
(* heap: 1 is the root, 2 * n the left and 2 * n + 1 the right child of n. *)
(***************************************************************************)
EXTENDS Integers, Sequences

LOCAL INSTANCE SequencesExt

\* construct_tree, level by level: "~" is a node without a character, "-" is no
\* node.  No node has a sixth level below it.
NodeChars ==
  <<"~",
    "E", "T",
    "I", "A", "N", "M",
    "S", "U", "R", "W", "D", "K", "G", "O",
    "H", "V", "F", "U", "L", "A", "P", "J", "B", "X", "C", "Y", "Z", "Q", "O", "~",
    "5", "4", "S", "3", "E", "-", "D", "2", "-", "E", "+", "-", "-", "A", "J", "1",
    "6", "=", "/", "-", "-", "~", "-", "-", "7", "~", "-", "-", "8", "-", "9", "0">>

IsNode(node) == node \in DOMAIN NodeChars /\ NodeChars[node] # "-"

\* d_current behind a dot or a dash; it stays where there is no such child.
Child(node, symbol) ==
  LET child == IF symbol = "DOT" THEN 2 * node ELSE 2 * node + 1
  IN  IF IsNode(child) THEN child ELSE node

\* The character these dots and dashes lead to, in a sequence; none perhaps.
CharOf(code) ==
  LET char == NodeChars[FoldLeft(Child, 1, code)]
  IN  IF char = "~" THEN <<>> ELSE <<char>>

EmptyTree == [node |-> 1, word |-> <<>>]

(***************************************************************************)
(* morse_tree::received_symbol: the tree behind a dot, a dash or a space,  *)
(* and whether it could make something of it.                              *)
(***************************************************************************)
TreeReceived(tree, symbol, buffLen) ==
  LET Is(node, word, res) == [tree |-> [node |-> node, word |-> word], res |-> res]
      char == NodeChars[tree.node]
  IN  CASE Len(tree.word) = buffLen -> Is(tree.node, tree.word, FALSE)
        [] Len(tree.word) # buffLen /\ symbol # "S_SPACE" ->
             LET child == Child(tree.node, symbol)
             IN  Is(child, tree.word, child # tree.node)
        [] Len(tree.word) # buffLen /\ symbol = "S_SPACE" ->
             IF char = "~" THEN Is(1, tree.word, tree.node = 1)
                           ELSE Is(1, Append(tree.word, char), TRUE)
=============================================================================
