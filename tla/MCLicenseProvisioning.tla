----------------------- MODULE MCLicenseProvisioning -----------------------
(* A small instance of LicenseProvisioning for TLC. *)
EXTENDS LicenseProvisioning

CONSTANTS a1, a2, w1, w2, j1, j2
=============================================================================
