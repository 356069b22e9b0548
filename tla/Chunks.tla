-------------------------------- MODULE Chunks --------------------------------
(***************************************************************************)
(* How a text is cut into the chunks that are embedded: lines into blocks,  *)
(* blocks packed into overlapping windows, the head put before the first.   *)
(* A character is its place <<block, offset>> in the text; a window is the  *)
(* sequence of its characters.                                             *)
(***************************************************************************)
EXTENDS Integers, FiniteSetsExt, SequencesExt

CONSTANTS
  TARGET_CHUNK_CHARS, CHUNK_OVERLAP_CHARS,
  MAX_WINDOWS     \* MAX_CHUNKS of the code

ASSUME ChunksAssumption ==
  /\ TARGET_CHUNK_CHARS \in Nat \ {0} /\ CHUNK_OVERLAP_CHARS \in Nat
  /\ MAX_WINDOWS \in Nat \ {0}

Break == <<<<0, 1>>, <<0, 2>>>>        \* the blank line between two blocks
Joined(a, b) == IF a = <<>> THEN b ELSE a \o Break \o b
Block(b, length) == [i \in 1..length |-> <<b, i>>]

\* splitIntoBlocks: a blank line ends a block, a heading starts one.
AddLine(acc, line) ==
  CASE line = "blank" -> [acc EXCEPT !.open = FALSE]
    [] line = "heading" \/ (line = "text" /\ ~acc.open) ->
         [open |-> TRUE, blocks |-> Append(acc.blocks, <<line>>)]
    [] OTHER -> [acc EXCEPT !.blocks[Len(acc.blocks)] = Append(@, line)]
SplitIntoBlocks(lines) ==
  FoldLeft(AddLine, [open |-> FALSE, blocks |-> <<>>], lines).blocks

\* Fault: the overlap is skipped, not taken back.
StrideOverOverlap == TARGET_CHUNK_CHARS + CHUNK_OVERLAP_CHARS
Stride == Max({1, TARGET_CHUNK_CHARS - CHUNK_OVERLAP_CHARS})

\* A block over the target is cut every Stride characters, room permitting.
HardSplit(text, room) ==
  LET cuts == {k \in 0..(Len(text) - 1) : k % Stride = 0}
      n == Min({Cardinality(cuts), room})
  IN  [i \in 1..n |-> SubSeq(text, (i - 1) * Stride + 1,
                             Min({(i - 1) * Stride + TARGET_CHUNK_CHARS, Len(text)}))]

OverlapOf(text) == SubSeq(text, Max({1, Len(text) - CHUNK_OVERLAP_CHARS + 1}), Len(text))

Push(acc) == IF acc.cur = <<>> THEN acc.windows ELSE Append(acc.windows, acc.cur)

PackBlock(acc, text) ==
  CASE Len(acc.windows) >= MAX_WINDOWS -> acc
    [] Len(acc.windows) < MAX_WINDOWS /\ Len(text) > TARGET_CHUNK_CHARS ->
         [windows |-> Push(acc) \o HardSplit(text, MAX_WINDOWS - Len(Push(acc))),
          cur |-> <<>>]
    [] Len(acc.windows) < MAX_WINDOWS /\ Len(text) <= TARGET_CHUNK_CHARS ->
         IF Len(Joined(acc.cur, text)) <= TARGET_CHUNK_CHARS
           THEN [acc EXCEPT !.cur = Joined(acc.cur, text)]
           ELSE [windows |-> Push(acc), cur |-> Joined(OverlapOf(acc.cur), text)]

\* Blocks are given by their lengths.
PackWindows(lengths) ==
  LET packed[b \in 0..Len(lengths)] ==
        IF b = 0 THEN [windows |-> <<>>, cur |-> <<>>]
        ELSE PackBlock(packed[b - 1], Block(b, lengths[b]))
      all == packed[Len(lengths)]
  IN  IF Len(all.windows) < MAX_WINDOWS THEN Push(all) ELSE all.windows

\* chunkEmbedInputs: the head (title and description) leads the first chunk.
ChunkEmbedInputs(head, lengths) ==
  LET windows == PackWindows(lengths)
  IN  CASE windows = <<>> /\ head = <<>> -> <<>>
        [] windows = <<>> /\ head # <<>> -> <<head>>
        [] OTHER -> [windows EXCEPT ![1] = Joined(head, windows[1])]

-----------------------------------------------------------------------------
Before(c, d) == c[1] < d[1] \/ (c[1] = d[1] /\ c[2] < d[2])

\* What is true of the windows of a text.
KeepsText(lengths) ==
  LET windows == PackWindows(lengths)
      text == {<<b, i>> : b \in DOMAIN lengths, i \in 1..Max({0} \union ToSet(lengths))}
      chars == {c \in text : c[2] <= lengths[c[1]]}
      held == UNION {ToSet(windows[w]) : w \in DOMAIN windows}
  IN  /\ Len(windows) <= MAX_WINDOWS
      /\ \A w \in DOMAIN windows :
           Len(windows[w]) <= TARGET_CHUNK_CHARS + CHUNK_OVERLAP_CHARS + Len(Break)
      /\ \A c \in chars \ held :
           Len(windows) = MAX_WINDOWS /\ \A d \in chars \cap held : Before(d, c)
=============================================================================
