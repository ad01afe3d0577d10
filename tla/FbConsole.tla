----------------------------- MODULE FbConsole -----------------------------
(***************************************************************************)
(* The text console on the frame buffer                                    *)
(* (drivers/video/efi_fb_console/efi_fb_console.c), behind console_putchar *)
(* and console_write.  Each character written is a step.  A cell of the    *)
(* screen shows a character; `cells' is the driver's buffer of what it     *)
(* thinks is shown.                                                        *)
(***************************************************************************)
EXTENDS Naturals, Sequences

CONSTANTS
  Rows, Cols,   \* of the screen, in characters
  LargestObject,  \* bytes of the largest object kmalloc has: 32768
  Chars,        \* printable characters
  MaxChars      \* bound: characters written

NewLine == "newline"     \* '\n'
Carriage == "return"     \* '\r'
Nul == "nul"             \* '\0', drawn as the font's first glyph
Boot == "boot"           \* what the boot loader left on the screen
Special == {NewLine, Carriage, Nul, Boot}

ASSUME ConsoleAssumption ==
  /\ Rows \in Nat \ {0} /\ Cols \in Nat \ {0} /\ MaxChars \in Nat
  /\ Chars \cap Special = {}

(* For a larger screen kmalloc returns a null pointer, which initialize    *)
(* does not look at.                                                       *)
ASSUME BufferAssumption == LargestObject \in Nat /\ Rows * Cols <= LargestObject

Cell == 0 .. Rows * Cols - 1

VARIABLES
  registered,   \* efi_fb_console is on console_list
  cx, cy,       \* cursor_x, cursor_y
  cells, screen,
  ideal,        \* history: the cells of a console that scrolls as it should
  scrolled,     \* history: a line has been scrolled away
  written       \* history: number of characters

conVars == <<registered, cx, cy, cells, screen, ideal, scrolled, written>>

(* Nothing is loaded; kmalloc, called first here, will return clear memory *)
(* for the buffer.                                                         *)
ConStart ==
  /\ registered = FALSE /\ cx = 0 /\ cy = 0
  /\ cells = [i \in Cell |-> Nul] /\ screen = [i \in Cell |-> Boot]
  /\ ideal = [i \in Cell |-> Nul] /\ scrolled = FALSE /\ written = 0

RegisterConsole == registered' = TRUE

(* efi_fb_console_load: initialize and register_console.                   *)
LoadConsole ==
  /\ ~registered /\ RegisterConsole
  /\ UNCHANGED <<cx, cy, cells, screen, ideal, scrolled, written>>

At(x, y) == y * Cols + x

(* __efi_fb_write_buff, with fb_draw_char.                                 *)
Put(b, x, y, c) == [b EXCEPT ![At(x, y)] = c]

(* The buffer after __efi_fb_newline in the last row: the rows move up,    *)
(* and a row's length is cleared Rows - 1 cells after the buffer's start.  *)
Moved(b) == [i \in Cell |-> IF i < (Rows - 1) * Cols THEN b[i + Cols] ELSE b[i]]
Cleared(b) == [i \in Cell |-> IF i \in Rows - 1 .. Rows - 2 + Cols THEN Nul ELSE b[i]]
LastCleared(b) == [i \in Cell |-> IF i >= (Rows - 1) * Cols THEN Nul ELSE b[i]]

(* __efi_fb_redraw and __efi_fb_newline, from a console's state.           *)
Redraw(s) == [s EXCEPT !.screen = s.cells]
Newline_NoRedraw(s) ==
  IF s.y + 1 < Rows THEN [s EXCEPT !.y = @ + 1]
  ELSE [s EXCEPT !.cells = Cleared(Moved(@)), !.ideal = LastCleared(Moved(@)), !.scrolled = TRUE]
Newline(s) ==
  IF s.y + 1 < Rows THEN [s EXCEPT !.y = @ + 1]
  ELSE Redraw([s EXCEPT !.cells = Cleared(Moved(@)), !.ideal = LastCleared(Moved(@)),
                        !.scrolled = TRUE])

(* __efi_fb_cursor_sanity.                                                 *)
Sane(s) == IF s.x >= Cols THEN Newline([s EXCEPT !.x = 0]) ELSE s

Draw(s, c) ==
  [s EXCEPT !.cells = Put(@, s.x, s.y, c), !.screen = Put(@, s.x, s.y, c),
            !.ideal = Put(@, s.x, s.y, c)]

(* efi_fb_console_putchar, on a console whose cursor is sane.              *)
Putchar(s, c) ==
  CASE c = NewLine -> Newline([Draw(s, Nul) EXCEPT !.x = 0])
    [] c = Carriage -> [s EXCEPT !.x = 0]
    [] OTHER -> [Draw(s, c) EXCEPT !.x = @ + 1]

State == [x |-> cx, y |-> cy, cells |-> cells, screen |-> screen, ideal |-> ideal,
          scrolled |-> scrolled]
Become(s) ==
  /\ cx' = s.x /\ cy' = s.y /\ cells' = s.cells /\ screen' = s.screen
  /\ ideal' = s.ideal /\ scrolled' = s.scrolled

(* console_putchar, from printf or from console_write: to all consoles.    *)
ConsolePutchar(c) ==
  /\ written < MaxChars /\ written' = written + 1
  /\ IF registered THEN Become(Putchar(Sane(State), c))
                   ELSE UNCHANGED <<cx, cy, cells, screen, ideal, scrolled>>
  /\ UNCHANGED registered

ConNext == LoadConsole \/ \E c \in Chars \cup {NewLine, Carriage} : ConsolePutchar(c)

ConSpec == ConStart /\ [][ConNext]_conVars

-----------------------------------------------------------------------------
(* The cursor stays where the next character, after the test of the        *)
(* column, is written inside the buffer and the screen.                    *)
CursorInside ==
  /\ cx \in 0 .. Cols /\ cy \in 0 .. Rows - 1
  /\ At(Sane(State).x, Sane(State).y) \in Cell

(* The cursor is inside; every cell that has been drawn shows what the     *)
(* driver has in its buffer; and that is the text: all of it until a line  *)
(* scrolls away, after that every printed character outside the cells a    *)
(* scroll clears by mistake and those above them.                          *)
TextShown ==
  /\ CursorInside
  /\ \A i \in Cell :
       /\ screen[i] = cells[i] \/ (screen[i] = Boot /\ cells[i] = Nul)
       /\ (~scrolled \/ (i >= Rows - 1 + Cols /\ ideal[i] \in Chars)) => cells[i] = ideal[i]
=============================================================================
