---------------------------- MODULE TerminalView ----------------------------
(***************************************************************************)
(* The scrollback of m8trixsh's terminal pane and the view into it, and the   *)
(* operating-system commands that come in pieces.                            *)
(* src/apps/m8trixsh/terminal_emulator.cpp; libvterm is external: it pushes   *)
(* the lines that leave the screen, and pops them back when it grows.         *)
(***************************************************************************)
EXTENDS Integers, Sequences

CONSTANTS ScrollbackLimit, MaxRows, MaxLines

VARIABLES mScrollback,   \* lines, oldest first, numbered as they were pushed
          mViewOffset,   \* how far back the view is
          mRows,
          mGrid,         \* the scrollback lines the pane shows, top first
          mGridDirty,
          mOscAccum, command,   \* pieces of a command so far; the command vterm is in
          handed,        \* what on_osc_cwd or on_line_submit got last
          pushed

vars == <<mScrollback, mViewOffset, mRows, mGrid, mGridDirty, mOscAccum, command,
          handed, pushed>>
oscVars == <<mOscAccum, command, handed>>

Init ==
    /\ mScrollback = <<>> /\ mViewOffset = 0 /\ mRows = 1
    /\ mGrid = <<>> /\ mGridDirty = FALSE
    /\ mOscAccum = <<>> /\ command = <<0, 0>> /\ handed = <<0, <<>>>>
    /\ pushed = 0

Clamp(n, lo, hi) == IF n < lo THEN lo ELSE IF n > hi THEN hi ELSE n

\* Fault: the view does not follow a push past the limit.
FollowBelowLimit(offset, lines) ==
    IF offset > 0 /\ Len(lines) < ScrollbackLimit THEN offset + 1 ELSE offset

\* The view stays on the lines it shows while new ones are pushed.
Follow(offset, lines) ==
    IF offset > 0 THEN Clamp(offset + 1, 0, Len(lines)) ELSE 0

\* sb_pushline: past the limit the oldest line goes.
Push ==
    LET all == Append(mScrollback, pushed + 1)
        kept == IF Len(all) > ScrollbackLimit THEN Tail(all) ELSE all IN
    /\ pushed < MaxLines
    /\ pushed' = pushed + 1
    /\ mScrollback' = kept
    /\ mViewOffset' = Follow(mViewOffset, kept)
    /\ mGridDirty' = TRUE
    /\ UNCHANGED <<mRows, mGrid, oscVars>>

\* set_size(): vterm pops lines back into a screen that grows; the view returns
\* to the bottom.
SetSize(rows) ==
    LET back == IF rows > mRows THEN Clamp(rows - mRows, 0, Len(mScrollback)) ELSE 0 IN
    /\ rows # mRows
    /\ mRows' = rows
    /\ mScrollback' = SubSeq(mScrollback, 1, Len(mScrollback) - back)
    /\ mViewOffset' = 0
    /\ mGridDirty' = TRUE
    /\ UNCHANGED <<mGrid, oscVars, pushed>>

ScrollView(delta) ==
    /\ mViewOffset' = Clamp(mViewOffset + delta, 0, Len(mScrollback))
    /\ mGridDirty' = TRUE
    /\ UNCHANGED <<mScrollback, mRows, mGrid, oscVars, pushed>>

\* A key, or a click, goes to the bottom.
ResetView ==
    /\ mViewOffset # 0
    /\ mViewOffset' = 0 /\ mGridDirty' = TRUE
    /\ UNCHANGED <<mScrollback, mRows, mGrid, oscVars, pushed>>

\* rebuild_grid(): the rows above the screen come from the scrollback.
RebuildGrid ==
    LET back == Clamp(mViewOffset, 0, Len(mScrollback))
        shown == Clamp(back, 0, mRows) IN
    /\ mGridDirty
    /\ mGrid' = [r \in 1..shown |-> mScrollback[Len(mScrollback) - back + r]]
    /\ mGridDirty' = FALSE
    /\ UNCHANGED <<mScrollback, mViewOffset, mRows, oscVars, pushed>>

----------------------------------------------------------------------------
\* A command of the shell, in pieces: 7, 5171 and any other.  What arrives is
\* the command itself and the number of the piece.

\* Fault: what another command left is not thrown away.
KeepOld(initial) == mOscAccum
Before(initial) == IF initial THEN <<>> ELSE mOscAccum

Osc(cmd, initial, final) ==
    LET at == IF initial THEN <<cmd, 1>> ELSE <<command[1], command[2] + 1>>
        accum == IF at[1] \in {7, 5171} THEN Append(Before(initial), at) ELSE mOscAccum IN
    /\ command = <<0, 0>> \/ ~initial      \* vterm starts a command after the last
    /\ ~initial => command[1] = cmd /\ command # <<0, 0>>
    /\ at[2] <= 2
    /\ command' = IF final THEN <<0, 0>> ELSE at
    /\ mOscAccum' = IF final /\ cmd \in {7, 5171} THEN <<>> ELSE accum
    /\ handed' = IF final /\ cmd \in {7, 5171} THEN <<cmd, accum>> ELSE handed
    /\ UNCHANGED <<mScrollback, mViewOffset, mRows, mGrid, mGridDirty, pushed>>

\* vterm drops a command a reset or an interrupt cuts short.
OscCutShort ==
    /\ command # <<0, 0>> /\ command' = <<0, 0>>
    /\ UNCHANGED <<mScrollback, mViewOffset, mRows, mGrid, mGridDirty, mOscAccum,
                   handed, pushed>>

Next ==
    \/ Push \/ ResetView \/ RebuildGrid \/ OscCutShort
    \/ \E rows \in 1..MaxRows : SetSize(rows)
    \/ \E delta \in {-1, 1} : ScrollView(delta)
    \/ \E cmd \in {7, 5171}, initial, final \in BOOLEAN : Osc(cmd, initial, final)

Spec == Init /\ [][Next]_vars

----------------------------------------------------------------------------
TypeOK ==
    /\ mScrollback \in Seq(1..MaxLines) /\ Len(mScrollback) <= ScrollbackLimit
    /\ mViewOffset \in 0..ScrollbackLimit /\ mRows \in 1..MaxRows
    /\ mGrid \in Seq(1..MaxLines) /\ mGridDirty \in BOOLEAN
    /\ mOscAccum \in Seq({7, 5171} \X (1..2)) /\ pushed \in 0..MaxLines

Top == mScrollback[Len(mScrollback) - mViewOffset + 1]

\* Who has scrolled back keeps reading the same lines while output comes in, as
\* long as the scrollback has them.
ViewStaysPut ==
    Push /\ mViewOffset > 0 /\ (\E i \in DOMAIN mScrollback' : mScrollback'[i] = Top) => Top' = Top

\* A line handed to the agent, or a directory, is one command's pieces, all of
\* them and in order.
CommandsComeWhole ==
    \A i \in DOMAIN handed[2] : handed[2][i] = <<handed[1], i>>

\* What keeps them so: the pieces kept are those of the command vterm is in; lines are
\* kept in the order they came, and the view is within them.
PiecesAreTheCommands ==
    command # <<0, 0>> =>
        /\ command \in {7, 5171} \X (1..2)
        /\ mOscAccum = [i \in 1..command[2] |-> <<command[1], i>>]

LinesAreInOrder ==
    /\ \A i, j \in DOMAIN mScrollback : i < j => mScrollback[i] < mScrollback[j]
    /\ \A i \in DOMAIN mScrollback : mScrollback[i] <= pushed
    /\ mViewOffset <= Len(mScrollback)

IInv == TypeOK /\ PiecesAreTheCommands /\ LinesAreInOrder /\ CommandsComeWhole
=============================================================================
