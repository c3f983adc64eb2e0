--------------------------- MODULE MCLoaderMedia ---------------------------
\* Three blobs, one of which PART_LOADER has no room for.
EXTENDS LoaderMedia

CONSTANTS b1, b2, huge

MCBlob == {b1, b2, huge}
MCFits == {b1, b2}
=============================================================================
