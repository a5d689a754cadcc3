--------------------------- MODULE MCMinidumpWriter ---------------------------
EXTENDS MinidumpWriter

AllStreams == Files \cup {"dso"}
Call == [context |-> TRUE, byPath |-> TRUE, skip |-> FALSE, postMortem |-> FALSE,
         workaround |-> FALSE, word32 |-> TRUE, sizeLimit |-> -1, stack |-> 32768,
         modules |-> <<<<"one", "two">>>>, appMemory |-> <<100>>, dsos |-> <<<<"one">>>>,
         dynamic |-> 64, fileSize |-> 700, readable |-> AllStreams]
\* A crash on Android, an explicit dump of another process with a size limit, a
\* core file, and a crash whose files cannot be read and whose module name has a
\* character outside the basic plane.
MCModes == {Call,
            [Call EXCEPT !.context = FALSE, !.word32 = FALSE, !.sizeLimit = 70000, !.skip = TRUE],
            [Call EXCEPT !.context = FALSE, !.postMortem = TRUE, !.modules = <<>>, !.dsos = <<>>,
                         !.appMemory = <<>>],
            [Call EXCEPT !.byPath = FALSE, !.workaround = TRUE, !.readable = {"maps"},
                         !.modules = <<<<"one", "one", "one", "one", "four">>>>,
                         !.dsos = <<<<"bad">>>>]}
MCLimits == {0, 4096, 12288, 45056, 1000000}
=============================================================================
