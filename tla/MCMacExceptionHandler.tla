----------------------- MODULE MCMacExceptionHandler -----------------------
EXTENDS MacExceptionHandler

CONSTANTS t1, t2

MCThreads == {t1, t2}

MCStarts == {<<t1>>, <<t1, t2>>, <<t2, t1>>}

Built(mode, install, ios, taken) ==
  [mode |-> mode, install |-> install, ios |-> ios, taken |-> taken]

\* iOS has no out-of-process handler; SIGABRT may already be another's.
MCBuilds ==
  {Built(mode, TRUE, FALSE, FALSE) : mode \in {"direct", "remote", "local"}}
    \cup {Built("local", TRUE, TRUE, FALSE), Built("local", FALSE, FALSE, FALSE),
          Built("local", TRUE, FALSE, TRUE)}
============================================================================
