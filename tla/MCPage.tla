------------------------------- MODULE MCPage -------------------------------
\* The page layout with the code's own page size.  The lengths fill a page
\* exactly in one (8180), two (4088) or four (2042) tuples, leave a remainder
\* (17, the smallest tuple, and 3000), and exceed a page by one byte (8181), by
\* the header (8184), or by so much that uint16 arithmetic wraps (65532, 65553).
EXTENDS Page

MCLengths == {17, 2042, 3000, 4088, 8180, 8181, 8184, 65532, 65553}
=============================================================================
