---------------------------- MODULE CanvasInput ----------------------------
(***************************************************************************)
(* How the mouse makes a stroke: the frames of sketch_app::run, one after  *)
(* the other, with the tool buttons (ToolButton::update) and               *)
(* process_canvas_input.  A minimised window handles buttons but no        *)
(* strokes.                                                                *)
(***************************************************************************)
EXTENDS Wire

CONSTANTS
    Tools,          \* the tools that have a button
    Points,         \* of the canvas
    Edge,           \* the point nearest to the buttons
    member_id, color, thickness

\* clear has no button; whose strokes are sent is in a session.
ASSUME CanvasInputAssumption ==
    /\ Tools \subseteq Strokes \cup Shapes \cup {tool_type.bucket_fill}
    /\ member_id \in 1..(Long - 1) /\ thickness \in 1..MaxThickness

None == <<>>        \* no temporary stroke; otherwise <<op>>
NoButton == -1

\* What a frame sees of the mouse and the window.
Frames ==
    { f \in [over : Tools \cup {NoButton}, position : Points,
             down : BOOLEAN, minimized : BOOLEAN] :
        f.over # NoButton => f.position = Edge }

\* missed: the releases that a minimised window let pass.
Idle(tool) ==
    [down |-> FALSE, is_down |-> NoButton, active_tool |-> tool,
     active_stroke |-> None, committed |-> None, missed |-> 0]

-----------------------------------------------------------------------------

NewStroke(tool, position) ==
    [operation_id |-> member_id * Long + 1, seq |-> 0, member_id |-> member_id,
     tool |-> tool, color |-> color, thickness |-> thickness, points |-> <<position>>]

FarApart(p, q) == (p[1] - q[1]) * (p[1] - q[1]) + (p[2] - q[2]) * (p[2] - q[2]) >= 32 * 32

\* Mutant of Dragged: a shape gets every point, as a stroke does.
DraggedOn(points, position, tool) ==
    IF tool \in Strokes \cup Shapes /\ FarApart(Last(points), position)
    THEN Append(points, position) ELSE points

\* It is the tool of this frame that counts, not the one of the stroke.
Dragged(points, position, tool) ==
    IF tool \in Strokes
    THEN IF FarApart(Last(points), position) THEN Append(points, position) ELSE points
    ELSE IF tool = tool_type.bucket_fill THEN points
    ELSE IF size(points) = 1 THEN Append(points, position)
    ELSE [points EXCEPT ![size(points)] = position]

process_canvas_input(ui, f, pressed, released, tool) ==
    LET inside == f.over = NoButton
        begun == IF ui.active_stroke = None /\ pressed /\ inside
                 THEN <<NewStroke(tool, f.position)>> ELSE ui.active_stroke
        drawn == IF begun # None /\ (f.down \/ (released /\ inside))
                 THEN <<[begun[1] EXCEPT !.points = Dragged(@, f.position, tool)]>>
                 ELSE begun
        ends == drawn # None /\ released
    IN [ui EXCEPT !.active_stroke = IF ends THEN None ELSE drawn,
                  !.committed =
                     IF ~ends THEN None
                     ELSE <<[drawn[1] EXCEPT !.points =
                               IF size(@) = 1 THEN Append(@, Head(@)) ELSE @]>>]

\* The buttons are looked at before the canvas.
Frame(ui, f) ==
    LET pressed == f.down /\ ~ui.down
        released == ui.down /\ ~f.down
        tool == IF released /\ f.over # NoButton /\ f.over = ui.is_down
                THEN f.over ELSE ui.active_tool
        mouse == [ui EXCEPT !.down = f.down, !.active_tool = tool,
                            !.is_down = IF pressed THEN f.over
                                        ELSE IF released THEN NoButton ELSE @]
    IN IF f.minimized
       THEN [mouse EXCEPT !.missed = IF released /\ ui.active_stroke # None
                                     THEN @ + 1 ELSE @]
       ELSE process_canvas_input(mouse, f, pressed, released, tool)

\* One more frame, up to the end of a stroke.
WithOneMore(uis) ==
    uis \cup { Frame(ui, f) : ui \in { u \in uis : u.committed = None }, f \in Frames }

\* What the first n frames may lead to.
After[n \in Nat] ==
    IF n = 0 THEN { Idle(tool) : tool \in Tools } ELSE WithOneMore(After[n - 1])

Committed(n) == { [op |-> ui.committed[1], missed |-> ui.missed] :
                    ui \in { u \in After[n] : u.committed # None } }
=============================================================================
