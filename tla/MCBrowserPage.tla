--------------------------- MODULE MCBrowserPage ---------------------------
\* A small instance of BrowserPage: two runs of two streams.
EXTENDS BrowserPage

CONSTANTS s1, s2

MCRun == 1 .. 2

MCStream == {s1, s2}

\* The grace period of the upload is longer than the test.
MCGrace == [download |-> 1, upload |-> 3]

=============================================================================
