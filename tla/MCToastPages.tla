----------------------------- MODULE MCToastPages -----------------------------
\* Values for TLC's instance of ToastPages.
EXTENDS ToastPages
=============================================================================
