------------------------------- MODULE InputBox -------------------------------
(***************************************************************************)
(* The input line of App: the text, the cursor and the typing indicator.   *)
(*                                                                         *)
(* The text is a sequence of characters, of which only the length of the   *)
(* UTF-8 encoding is kept. The code counts the cursor in characters when   *)
(* it moves it and gives it to String::insert and String::remove, which    *)
(* take a byte index and panic inside of a character.                      *)
(***************************************************************************)
EXTENDS Naturals, Sequences, SequencesExt

CONSTANTS
  Widths,    \* bytes of the characters that are typed, 1..4
  MaxInput   \* bound: characters in the input line

VARIABLES
  input,
  cursor,    \* cursor_position
  typing,    \* local_typing, with typing_timer running
  panicked   \* the program has ended in a panic

inputVars == <<input, cursor, typing, panicked>>

InputTypeOK ==
  /\ input \in Seq(Widths)
  /\ cursor \in Nat
  /\ typing \in BOOLEAN /\ panicked \in BOOLEAN

InputInit == input = << >> /\ cursor = 0 /\ typing = FALSE /\ panicked = FALSE

-----------------------------------------------------------------------------

\* String::len, in bytes.
Bytes(s) == FoldLeft(+, 0, s)

\* String::is_char_boundary: k characters end at byte b.
EndsAt(k, b) == k \in 0..Len(input) /\ Bytes(SubSeq(input, 1, k)) = b

\* insert panics at a byte that is inside of a character.
EnterChar(w) ==
  /\ Len(input) < MaxInput
  /\ \/ \E k \in 0..Len(input) :
          /\ EndsAt(k, cursor)
          /\ input' = InsertAt(input, k + 1, w)
          /\ cursor' = cursor + 1
          /\ typing' = TRUE
          /\ UNCHANGED panicked
     \/ /\ \A k \in 0..Len(input) : ~EndsAt(k, cursor)
        /\ panicked' = TRUE
        /\ UNCHANGED <<input, cursor, typing>>

\* The character that starts one byte before the cursor goes; remove panics if
\* none starts there. The indicator stays on while there is text.
DeleteChar ==
  \/ /\ cursor = 0
     /\ typing' = (input # << >>)
     /\ UNCHANGED <<input, cursor, panicked>>
  \/ /\ cursor > 0
     /\ \/ \E k \in 1..Len(input) :
             /\ EndsAt(k - 1, cursor - 1)
             /\ input' = RemoveAt(input, k)
             /\ cursor' = cursor - 1
             /\ typing' = (input' # << >>)
             /\ UNCHANGED panicked
        \/ /\ \A k \in 1..Len(input) : ~EndsAt(k - 1, cursor - 1)
           /\ panicked' = TRUE
           /\ UNCHANGED <<input, cursor, typing>>

\* Left, Right, Home and End.
MoveCursor ==
  /\ cursor' \in {IF cursor > 0 THEN cursor - 1 ELSE 0,
                  IF cursor < Bytes(input) THEN cursor + 1 ELSE cursor,
                  0, Bytes(input)}
  /\ UNCHANGED <<input, typing, panicked>>

\* Enter stops the indicator; what was typed is cleared, or kept.
ClearInput ==
  /\ input' = << >> /\ cursor' = 0 /\ typing' = FALSE
  /\ UNCHANGED panicked

KeepInput == typing' = FALSE /\ UNCHANGED <<input, cursor, panicked>>

\* tick_typing: the timer has run out.
TickTyping ==
  /\ typing
  /\ typing' = FALSE
  /\ UNCHANGED <<input, cursor, panicked>>

InputNext ==
  /\ ~panicked
  /\ \/ \E w \in Widths : EnterChar(w)
     \/ DeleteChar \/ MoveCursor
     \/ ClearInput \/ KeepInput
     \/ TickTyping

InputSpec == InputInit /\ [][InputNext]_inputVars

-----------------------------------------------------------------------------
(* Property *)

\* app.rs:141, "Cursor position in input (character index)": the cursor that is
\* given to insert stands between two characters. (It does not, after a
\* character of more than one byte, and the next key ends the program.)
CursorOnBoundary == \E k \in 0..Len(input) : EndsAt(k, cursor)
=============================================================================
