---------------------------- MODULE DisplayLayout ----------------------------
(***************************************************************************)
(* How a text is broken into rows of the terminal, and how one page of a   *)
(* long text is found without keeping its rows (packages/cli/src/tui/      *)
(* layout.ts): every so many rows the layout keeps a checkpoint, and a     *)
(* page is laid out from the checkpoint before it.                         *)
(*                                                                         *)
(* A text is a sequence of segments: characters of one or two cells, marks *)
(* of none, tabs and line ends.                                            *)
(***************************************************************************)
EXTENDS Integers, Sequences, SequencesExt

TAB_STOP_WIDTH == 8

segmentDisplayWidth(segment, column) ==
    CASE segment = "tab"  -> TAB_STOP_WIDTH - (column % TAB_STOP_WIDTH)
      [] segment = "wide" -> 2
      [] segment = "mark" -> 0
      [] OTHER            -> 1

\* The row being filled, the rows that are full, and where the next begins.
NewRow == [row |-> <<>>, column |-> 0, rows |-> <<>>, starts |-> <<>>]

EmitRow(line, next) ==
    [row |-> <<>>, column |-> 0, rows |-> Append(line.rows, line.row),
     starts |-> Append(line.starts, next)]

\* A segment that does not fit begins a row, but a row holds at least one.  Its
\* width is that of the column it did not fit in.
Place(line, segment, width, at) ==
    IF segment = "nl" THEN EmitRow(line, at + 1)
    ELSE LET cells == segmentDisplayWidth(segment, line.column)
             fits  == line.row = <<>> \/ line.column + cells <= width
             into  == IF fits THEN line ELSE EmitRow(line, at)
         IN  [into EXCEPT !.row = Append(@, segment), !.column = @ + cells]

\* One pass over a text.
LaidOut(value, width) ==
    EmitRow(FoldLeftDomain(LAMBDA line, i : Place(line, value[i], width, i),
                           NewRow, value),
            Len(value) + 1)

countProjectedRows(value, width) == Len(LaidOut(value, width).rows)

\* Row numbers count from 0, as in the code, and segments from 1.
buildCheckpoints(value, width, totalRows, most) ==
    LET stride == IF totalRows <= most THEN 1 ELSE (totalRows + most - 1) \div most
        starts == LaidOut(value, width).starts
        Keep(list, row) ==
            IF row % stride = 0 /\ Len(list) <= most
            THEN Append(list, [row |-> row, offset |-> starts[row]]) ELSE list
    IN  FoldLeftDomain(Keep, <<[row |-> 0, offset |-> 1]>>, starts)

\* The binary search for the last checkpoint not after the row.
findCheckpoint(checkpoints, row) ==
    LET search[bounds \in (1..Len(checkpoints) + 1) \X (0..Len(checkpoints))] ==
            LET low == bounds[1]
                high == bounds[2]
                middle == (low + high) \div 2
            IN  IF low > high THEN high
                ELSE IF checkpoints[middle].row <= row
                     THEN search[<<middle + 1, high>>]
                     ELSE search[<<low, middle - 1>>]
    IN  checkpoints[search[<<1, Len(checkpoints)>>]]

FirstRow(requested, limit, totalRows) ==
    IF totalRows - limit < requested
    THEN IF totalRows > limit THEN totalRows - limit ELSE 0
    ELSE requested

\* A page is laid out from its checkpoint until it is full.
extractProjectedPage(value, width, checkpoints, totalRows, requested, limit) ==
    LET offset == FirstRow(requested, limit, totalRows)
        from == findCheckpoint(checkpoints, offset)
        suffix == SubSeq(value, from.offset, Len(value))
        Full(line) == from.row + Len(line.rows) >= offset + limit
        Fill(line, i) ==
            IF Full(line) THEN line ELSE Place(line, suffix[i], width, i)
        filled == FoldLeftDomain(Fill, NewRow, suffix)
        \* A segment that ended the last row of the page is not placed.
        rows == IF Full(filled) THEN filled.rows ELSE EmitRow(filled, 0).rows
        first == offset - from.row + 1
    IN  [offset |-> offset,
         rows |-> SubSeq(rows, first,
                         IF first + limit - 1 < Len(rows) THEN first + limit - 1
                         ELSE Len(rows))]

\* The page of a text that has no layout yet: its rows and the last rows are
\* collected in one pass, and the last are taken when the page asked for
\* reaches past the end.
paginateRenderedText(value, width, requested, limit) ==
    LET all == LaidOut(value, width).rows
        asked == SelectSeq([i \in DOMAIN all |-> [row |-> i, is |-> all[i]]],
                           LAMBDA r : requested < r.row /\ r.row <= requested + limit)
        tail == IF Len(all) <= limit THEN all
                ELSE SubSeq(all, Len(all) - limit + 1, Len(all))
        offset == FirstRow(requested, limit, Len(all))
    IN  [offset |-> offset,
         rows |-> IF offset = requested THEN [i \in DOMAIN asked |-> asked[i].is]
                  ELSE tail]

-----------------------------------------------------------------------------
CellsOf(row) ==
    FoldLeft(LAMBDA column, s : column + segmentDisplayWidth(s, column), 0, row)

\* A tab that does not fit takes into the next row the width it had at the end
\* of the row before; laid out from a checkpoint, it has that of column 0.
WrappedTab(value, width) ==
    LET starts == LaidOut(value, width).starts IN
    \E i \in DOMAIN starts :
        /\ starts[i] \in 2..Len(value)
        /\ value[starts[i]] = "tab" /\ value[starts[i] - 1] # "nl"

\* /source shows, from whatever row, the rows a pass over the whole text makes
\* of it: a page found through a checkpoint is the page of the whole text.
\* After a wrapped tab it may not be: the rows then differ from those counted,
\* and the last of them is not shown.
PagesAgree(value, width, most) ==
    LET all == LaidOut(value, width).rows
        total == Len(all)
        checkpoints == buildCheckpoints(value, width, total, most)
    IN  /\ Len(checkpoints) <= most + 1
        /\ \A requested \in 0..total + 1, limit \in 1..total + 1 :
               LET page == paginateRenderedText(value, width, requested, limit)
                   found == extractProjectedPage(value, width, checkpoints, total,
                                                 requested, limit)
                   end == IF page.offset + limit < total THEN page.offset + limit
                          ELSE total
               IN  /\ page.rows = SubSeq(all, page.offset + 1, end)
                   /\ found = page \/ WrappedTab(value, width)

\* No segment is lost between rows, and a row is too wide only if its first
\* segment alone is.
NothingIsCut(value, width) ==
    LET rows == LaidOut(value, width).rows IN
    /\ FlattenSeq(rows) = SelectSeq(value, LAMBDA s : s # "nl")
    /\ \A i \in DOMAIN rows :
           \/ CellsOf(rows[i]) <= width
           \/ segmentDisplayWidth(rows[i][1], 0) > width
           \/ WrappedTab(value, width)
=============================================================================
