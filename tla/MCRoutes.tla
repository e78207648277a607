------------------------------ MODULE MCRoutes ------------------------------
EXTENDS Routes
=============================================================================
