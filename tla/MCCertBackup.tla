----------------------------- MODULE MCCertBackup -----------------------------
(* Small instances of CertBackup.                                          *)
EXTENDS CertBackupProps

CONSTANTS tls, letsencrypt, crt, key
=============================================================================
