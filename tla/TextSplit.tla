------------------------------- MODULE TextSplit -------------------------------
(***************************************************************************)
(* A long text is sent as several Telegram messages                        *)
(* (internal/telegram/bot.go: SendMessageDetailed, SplitTextForTelegram,   *)
(* preferredTelegramSplit, trimLeadingSpaceRunes).                         *)
(*                                                                         *)
(* Characters are told apart as far as the splitting does: ink, a space, a *)
(* line break.  A slice of the text, and so a message, is the place where  *)
(* it begins and the place where it ends.  The loop of the split runs one  *)
(* chunk per step, then the chunks are sent one call at a time, and a call *)
(* may fail.                                                               *)
(***************************************************************************)
EXTENDS Naturals, Sequences, FiniteSetsExt

CONSTANTS
  MaxText,     \* bound: characters of a text
  ChunkMax,    \* characters of one message (the code: 4000)
  Window       \* how far back a nicer place to cut is sought (the code: 500)

ASSUME SplitAssumption ==
  /\ MaxText \in Nat
  /\ ChunkMax \in Nat \ {0}
  /\ Window \in Nat

VARIABLES
  splitPc,     \* "idle", "split", "send", "sent" or "failed"
  text,        \* the text given
  rest,        \* runes: what is still to be split
  chunks,      \* chunks: what is still to be sent
  sent         \* history: the messages Telegram has accepted

splitVars == <<splitPc, text, rest, chunks, sent>>

Blank == {"space", "newline"}
Characters == {"ink"} \cup Blank

Slice(i, j) == [from |-> i, to |-> j]
Nothing == Slice(1, 0)
Span(s) == s.from..s.to
Length(s) == s.to + 1 - s.from
InkIn(t, s) == {k \in Span(s) : t[k] \notin Blank}

TrimLeft(t, s) ==
  IF InkIn(t, s) = {} THEN Nothing ELSE Slice(Min(InkIn(t, s)), s.to)
TrimSpace(t, s) ==
  IF InkIn(t, s) = {} THEN Nothing ELSE Slice(Min(InkIn(t, s)), Max(InkIn(t, s)))

SplitInit ==
  /\ splitPc = "idle"
  /\ text = <<>>
  /\ rest = Nothing
  /\ chunks = <<>>
  /\ sent = <<>>

-----------------------------------------------------------------------------
(* preferredTelegramSplit: behind an empty line, else behind a line, else  *)
(* behind a white space, each the last one above the floor, else at the    *)
(* limit.  An empty line keeps one character more away from the floor.     *)
Floor == IF ChunkMax - Window < 1 THEN 1 ELSE ChunkMax - Window
Limit(s) == s.from + ChunkMax - 1
PreferredSplit(s) ==
  LET lines  == {k \in (s.from + Floor)..Limit(s) : text[k] = "newline"}
      empty  == {k \in lines : k > s.from + Floor /\ text[k - 1] = "newline"}
      blanks == {k \in (s.from + Floor)..Limit(s) : text[k] \in Blank}
  IN  Max(IF empty # {} THEN empty
          ELSE IF lines # {} THEN lines
          ELSE IF blanks # {} THEN blanks
          ELSE {Limit(s)})

(* SplitTextForTelegram: the text is trimmed before the loop; one without  *)
(* ink is no message at all.                                               *)
Compose ==
  /\ splitPc = "idle"
  /\ \E n \in 1..MaxText : \E t \in [1..n -> Characters] :
       /\ text' = t
       /\ rest' = TrimSpace(t, Slice(1, n))
  /\ splitPc' = IF rest' = Nothing THEN "sent" ELSE "split"
  /\ UNCHANGED <<chunks, sent>>

(* Slip: the character at which the text is cut is dropped.                *)
CutDropsOne(s, k) ==
  /\ chunks' = Append(chunks, TrimSpace(text, Slice(s.from, k - 1)))
  /\ rest' = TrimLeft(text, Slice(k + 1, s.to))

(* One round of the loop.                                                  *)
CutAt(s, k) ==
  LET head == TrimSpace(text, Slice(s.from, k))
      cut  == IF head = Nothing THEN Limit(s) ELSE k
  IN  /\ chunks' = Append(chunks, IF head = Nothing THEN Slice(s.from, cut) ELSE head)
      /\ rest' = TrimLeft(text, Slice(cut + 1, s.to))

SplitOne ==
  /\ splitPc = "split"
  /\ rest # Nothing
  /\ IF Length(rest) <= ChunkMax
     THEN chunks' = Append(chunks, rest) /\ rest' = Nothing
     ELSE CutAt(rest, PreferredSplit(rest))
  /\ UNCHANGED <<splitPc, text, sent>>

SplitDone ==
  /\ splitPc = "split"
  /\ rest = Nothing
  /\ splitPc' = "send"
  /\ UNCHANGED <<text, rest, chunks, sent>>

(* SendMessageDetailed: one call per chunk; the first that fails ends it.  *)
SendChunk ==
  /\ splitPc = "send"
  /\ sent' = Append(sent, Head(chunks))
  /\ chunks' = Tail(chunks)
  /\ splitPc' = IF Len(chunks) = 1 THEN "sent" ELSE "send"
  /\ UNCHANGED <<text, rest>>

SendChunkFails ==
  /\ splitPc = "send"
  /\ splitPc' = "failed"
  /\ chunks' = <<>>
  /\ UNCHANGED <<text, rest, sent>>

NextText ==
  /\ splitPc \in {"sent", "failed"}
  /\ splitPc' = "idle"
  /\ text' = <<>>
  /\ rest' = Nothing
  /\ chunks' = <<>>
  /\ sent' = <<>>

SplitNext ==
  \/ Compose \/ SplitOne \/ SplitDone
  \/ SendChunk \/ SendChunkFails \/ NextText

SplitSpec == SplitInit /\ [][SplitNext]_splitVars

-----------------------------------------------------------------------------
Slices == [from : 1..(MaxText + 1), to : 0..MaxText]
SplitTypeOK ==
  /\ splitPc \in {"idle", "split", "send", "sent", "failed"}
  /\ text \in Seq(Characters) /\ Len(text) <= MaxText
  /\ rest \in Slices
  /\ chunks \in Seq(Slices)
  /\ sent \in Seq(Slices)

(* What Telegram takes: neither empty nor longer than it allows, and with  *)
(* no white space at either end.                                           *)
IsMessage(s) ==
  /\ Length(s) \in 1..ChunkMax
  /\ {s.from, s.to} \subseteq InkIn(text, s)

(* What the reader sees is the text: at every moment the messages sent,    *)
(* those still to be sent and the rest are pieces of the text in its own   *)
(* order, none overlapping the one before, and between them they hold      *)
(* every character that is ink (after a failed call, every one up to the   *)
(* end of the last message sent); each message is one that Telegram takes. *)
SplitKeepsText ==
  LET all == sent \o chunks
  IN  /\ \A i \in DOMAIN all : IsMessage(all[i])
      /\ \A i, j \in DOMAIN all : i < j => all[i].to < all[j].from
      /\ \A i \in DOMAIN all : rest # Nothing => all[i].to < rest.from
      /\ \A k \in InkIn(text, Slice(1, Len(text))) :
           \/ \E i \in DOMAIN all : k \in Span(all[i])
           \/ k \in Span(rest)
           \/ splitPc = "failed" /\ \A i \in DOMAIN all : all[i].to < k
=============================================================================
