---------------------------- MODULE XErrorHandler ----------------------------
(***************************************************************************)
(* The process-wide X error handler (src/src/platform/x11plugview.cpp).    *)
(* Xlib keeps one handler for the process; every plug-in bundle built from *)
(* this code carries its own copy of the globals and puts its handler on   *)
(* top of whatever it finds when its first editor opens. Editors open and  *)
(* close on the host's UI thread, so the calls of two bundles follow one   *)
(* another.                                                                *)
(***************************************************************************)
EXTENDS Naturals, FiniteSets

CONSTANTS
  Bundle,       \* sibling bundles in one host process
  MaxDisplays,  \* editors one bundle has open at once (a bound)
  Base,         \* the handler before any of them: the host's, or Xlib's own
  Default,      \* Xlib's default handler, which calls exit()
  Null,         \* no handler
  Library       \* another library of the process, with a chaining handler of its own

ASSUME HandlerAssumption ==
  /\ MaxDisplays \in Nat \ {0}
  /\ IsFiniteSet(Bundle)
  /\ Bundle \cap {Base, Default, Null, Library} = {}
  /\ Cardinality({Base, Default, Null, Library}) = 4

VARIABLES
  handler,                \* Xlib's pointer: the bundle it belongs to, Base or Default
  loaded,                 \* bundles mapped into the process
  gOurDisplays,           \* gOurDisplays[b]: how many connections b has open
  gPreviousErrorHandler,  \* of each bundle
  gHandlerInstalled,      \* of each bundle
  libraryPrevious         \* what the library's handler chains to, once installed

globals == <<gOurDisplays, gPreviousErrorHandler, gHandlerInstalled>>
handlerVars == <<handler, loaded, globals, libraryPrevious>>

HandlerInit ==
  /\ handler = Base
  /\ loaded = Bundle
  /\ gOurDisplays = [b \in Bundle |-> 0]
  /\ gPreviousErrorHandler = [b \in Bundle |-> Null]
  /\ gHandlerInstalled = [b \in Bundle |-> FALSE]
  /\ libraryPrevious = Null

\* Mutant: every editor that opens puts the handler on top again.
RegisterAlways(b) ==
  /\ b \in loaded /\ gOurDisplays[b] < MaxDisplays
  /\ gOurDisplays' = [gOurDisplays EXCEPT ![b] = @ + 1]
  /\ gPreviousErrorHandler' = [gPreviousErrorHandler EXCEPT ![b] = handler]
  /\ handler' = b
  /\ gHandlerInstalled' = [gHandlerInstalled EXCEPT ![b] = TRUE]
  /\ UNCHANGED <<loaded, libraryPrevious>>

\* registerDisplay, from openWindow
RegisterDisplay(b) ==
  /\ b \in loaded /\ gOurDisplays[b] < MaxDisplays
  /\ gOurDisplays' = [gOurDisplays EXCEPT ![b] = @ + 1]
  /\ IF gHandlerInstalled[b]
     THEN UNCHANGED <<handler, gPreviousErrorHandler, gHandlerInstalled>>
     ELSE /\ gPreviousErrorHandler' = [gPreviousErrorHandler EXCEPT ![b] = handler]
          /\ handler' = b
          /\ gHandlerInstalled' = [gHandlerInstalled EXCEPT ![b] = TRUE]
  /\ UNCHANGED <<loaded, libraryPrevious>>

\* dladdr finds the object of a handler that is still mapped.
Mapped(h) == h \notin Bundle \/ h \in loaded

\* The last display has gone: step down, if still on top, to the handler found at
\* installation, or to Xlib's own if that one has been unloaded.
UninstallIfOnTop(b) ==
  IF handler = b
  THEN /\ handler' = IF Mapped(gPreviousErrorHandler[b]) THEN gPreviousErrorHandler[b]
                                                         ELSE Default
       /\ gHandlerInstalled' = [gHandlerInstalled EXCEPT ![b] = FALSE]
       /\ gPreviousErrorHandler' = [gPreviousErrorHandler EXCEPT ![b] = Null]
  ELSE UNCHANGED <<handler, gHandlerInstalled, gPreviousErrorHandler>>

\* unregisterDisplay, from closeWindow
UnregisterDisplay(b) ==
  /\ gOurDisplays[b] > 0
  /\ gOurDisplays' = [gOurDisplays EXCEPT ![b] = @ - 1]
  /\ IF gOurDisplays'[b] = 0 /\ gHandlerInstalled[b]
     THEN UninstallIfOnTop(b)
     ELSE UNCHANGED <<handler, gHandlerInstalled, gPreviousErrorHandler>>
  /\ UNCHANGED <<loaded, libraryPrevious>>

\* The host drops a bundle none of whose editors is open.
Unload(b) ==
  /\ b \in loaded /\ gOurDisplays[b] = 0
  /\ loaded' = loaded \ {b}
  /\ UNCHANGED <<handler, globals, libraryPrevious>>

\* "Another library may have installed its own handler after ours and be chaining to
\* us": once, at any time, and for good.
LibraryInstalls ==
  /\ libraryPrevious = Null
  /\ libraryPrevious' = handler
  /\ handler' = Library
  /\ UNCHANGED <<loaded, globals>>

HandlerNext ==
  \/ \E b \in Bundle : RegisterDisplay(b) \/ UnregisterDisplay(b) \/ Unload(b)
  \/ LibraryInstalls

HandlerSpec == HandlerInit /\ [][HandlerNext]_handlerVars

-----------------------------------------------------------------------------
\* Xlib always has some handler, and a bundle remembers one exactly while it is installed.
TypeOK ==
  /\ handler \in Bundle \cup {Base, Default, Library}
  /\ loaded \subseteq Bundle
  /\ gOurDisplays \in [Bundle -> 0..MaxDisplays]
  /\ gHandlerInstalled \in [Bundle -> BOOLEAN]
  /\ gPreviousErrorHandler \in [Bundle -> Bundle \cup {Base, Default, Library, Null}]
  /\ \A b \in Bundle : gHandlerInstalled[b] = (gPreviousErrorHandler[b] # Null)
  /\ libraryPrevious \in Bundle \cup {Base, Default, Null}

\* The handler that h passes an error on, for a connection of bundle o (of the host if
\* o = Base); h itself if h answers it. xErrorHandler absorbs an error of its own
\* bundle, and any error while it has no previous handler.
PassedTo(h, o) ==
  IF h = Library THEN libraryPrevious
  ELSE IF h \notin Bundle \/ (h = o /\ gOurDisplays[o] > 0)
          \/ gPreviousErrorHandler[h] = Null THEN h
  ELSE gPreviousErrorHandler[h]

\* The handler that answers the error in the end, passed on from the one Xlib calls;
\* if the handlers pass it round in a circle, one of the circle.
Answers(o) ==
  LET hop[k \in 0..Cardinality(Bundle) + 1] ==
        IF k = 0 THEN handler ELSE PassedTo(hop[k - 1], o)
  IN  hop[Cardinality(Bundle) + 1]

\* A sibling that was unloaded with its handler still in the chain breaks the chain there.
ChainIsWhole == \A b \in Bundle \ loaded : ~gHandlerInstalled[b]

\* An error on one of our connections never reaches Xlib's own handler, which would
\* take the host down, nor anyone else's, and "Errors on a display that is not ours go
\* to whatever handler the host had installed": through any number of siblings, opened
\* and closed in any order, under another library's handler or over it, and never
\* round in a circle, as long as no sibling was unloaded from the middle of the chain.
ErrorsReachTheirOwner ==
  ChainIsWhole =>
    /\ \A b \in Bundle : gOurDisplays[b] > 0 => Answers(b) = b
    /\ Answers(Base) = Base

\* The comment on gHandlerInstalled: "The handler is uninstalled again when the last
\* of our displays goes [...] A handler left installed across that unload is a pointer
\* into unmapped memory". Xlib's pointer is never into a bundle that was unloaded.
HandlerIsMapped == Mapped(handler)
=============================================================================
