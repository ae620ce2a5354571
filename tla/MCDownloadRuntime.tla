------------------------- MODULE MCDownloadRuntime -------------------------
EXTENDS DownloadRuntime

(* Both views as video and audio, one view, and a view that was not recorded. *)
AskedJobs == {[views |-> "both", audio |-> FALSE, recorded |-> Views],
              [views |-> "both", audio |-> FALSE, recorded |-> {"left"}],
              [views |-> "left", audio |-> FALSE, recorded |-> Views]}

Line(r, e, s) == [reuse |-> r, events |-> e, selected |-> s]

(* One command with two lectures, and two commands for one artifact. *)
Lines == {<<Line(TRUE, TRUE, {1, 2}), Line(FALSE, FALSE, {})>>,
          <<Line(TRUE, FALSE, {1}), Line(TRUE, TRUE, {1})>>,
          <<Line(TRUE, TRUE, {1}), Line(FALSE, TRUE, {1})>>}
=============================================================================
