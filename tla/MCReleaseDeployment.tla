-------------------------- MODULE MCReleaseDeployment --------------------------
EXTENDS ReleaseDeployment
================================================================================
