------------------------------- MODULE MCWindows -------------------------------
\* Two origins of pages and one to log in; a second configuration moves the
\* website and the shortcuts, a third one selects a process.
EXTENDS BusinessWindows
CONSTANTS a, b, login
MCOrigin == {a, b, login}
First == [website |-> a, environments |-> {}, trusted |-> {login}, allowSwitch |-> TRUE, processes |-> {},
          keys |-> {}, autoStart |-> FALSE, autoClose |-> TRUE]
Second == [First EXCEPT !.website = b, !.trusted = {}, !.keys = {"capture"}, !.autoStart = TRUE, !.autoClose = FALSE]
Third == [First EXCEPT !.processes = {"helper"}]
MCConfig == {First, Second, Third}
=============================================================================
