--------------------------- MODULE MCStartupJobs ---------------------------
EXTENDS StartupJobs
============================================================================
