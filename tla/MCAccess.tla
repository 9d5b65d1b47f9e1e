------------------------------ MODULE MCAccess ------------------------------
EXTENDS Access

MCSkews == -Leeway..Leeway
=============================================================================
