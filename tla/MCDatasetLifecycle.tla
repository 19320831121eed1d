-------------------------- MODULE MCDatasetLifecycle --------------------------
EXTENDS DatasetLifecycle

\* The first annotation has a qrel that the review of the sources corrects.
MCCorrected == <<2, 2>>
=============================================================================
